---- MODULE Spec2Model ----
(***************************************************************************)
(* Model of the clzip driver (main.c): decompress(), compress(), the file  *)
(* loop of main() and the signal / cleanup path.                           *)
(*                                                                         *)
(* The codec proper (range coder, LZ encoder and decoder) and lzip.h are   *)
(* not part of main.c.  A compressed stream is therefore a sequence of     *)
(* tokens: plain bytes (headers, trailing data) and "body" tokens, each    *)
(* standing for the range-coded payload plus trailer of one member,        *)
(* carrying the result LZd_decode_member gives for it and the bytes it     *)
(* writes to the output.                                                   *)
(***************************************************************************)
EXTENDS Integers, Sequences, FiniteSets, TLC

\* ------------------------------------------------------------------ bounds
\* Largest number of valid members in front of the last item of a stream.
MaxMembers == 2

\* --------------------------------------------------------------- constants
Lh_size == 6
min_dictionary_bits == 12
max_dictionary_bits == 29
min_dictionary_size == 2 ^ min_dictionary_bits
max_dictionary_size == 2 ^ max_dictionary_bits
lzip_magic == <<76, 90, 73, 80>>                \* "LZIP"
\* void internal_error( const char * const msg ): exit( 3 )
internal_error_status == 3

\* messages (lzip.h and main.c)
bad_magic_msg == "Bad magic number (file not in lzip format)."
bad_dict_msg == "Invalid dictionary size in member header."
corrupt_mm_msg == "Corrupt header in multimember file."
trailing_msg == "Trailing data not allowed."
mem_msg == "Not enough memory."
eof_header_msg == "File ends unexpectedly at member header."
trunc_header_msg == "Truncated header in multimember file."

Min(a, b) == IF a < b THEN a ELSE b
Max(a, b) == IF a > b THEN a ELSE b

\* ------------------------------------------------------------------ tokens
Byte(n) == [kind |-> "byte", v |-> n, res |-> 0, data |-> <<>>]
Body(r, d) == [kind |-> "body", v |-> 0, res |-> r, data |-> d]

Bytes(s) == [i \in 1..Len(s) |-> Byte(s[i])]

\* ------------------------------------------------------------ lzip header
\* const char * bad_version( const unsigned version )
bad_version(version) ==
  "Version " \o ToString(version) \o " member format not supported."

\* memcmp( data, lzip_magic, 4 ) == 0
Lh_verify_magic(data) == \A i \in 1..4 : data[i] = lzip_magic[i]

\* detect (truncated) header: the sz bytes read are a prefix of the magic
Lh_verify_prefix(data, sz) ==
  /\ \A i \in 1..Min(sz, 4) : data[i] = lzip_magic[i]
  /\ sz > 0

\* detect corrupt header: 2 or 3 of the 4 magic bytes match
Lh_verify_corrupt(data) ==
  LET matches == Cardinality({i \in 1..4 : data[i] = lzip_magic[i]})
  IN  matches > 1 /\ matches < 4

Lh_version(data) == data[5]

Lh_verify_version(data) == data[5] = 1

\* sz = 1 << ( data[5] & 0x1F );
\* if( sz > min_dictionary_size ) sz -= ( sz / 16 ) * ( ( data[5] >> 5 ) & 7 );
Lh_get_dictionary_size(data) ==
  LET sz == 2 ^ (data[6] % 32)
      fr == (data[6] \div 32) % 8
  IN  IF sz > min_dictionary_size THEN sz - (sz \div 16) * fr ELSE sz

isvalid_ds(dictionary_size) ==
  /\ dictionary_size >= min_dictionary_size
  /\ dictionary_size <= max_dictionary_size

\* ------------------------------------------------------------------ state
VARIABLES
  input,            \* the compressed stream behind infd (tokens)
  pos,              \* tokens of input consumed by the range decoder
  ignore_trailing,  \* main(): false after -a / --trailing-error
  loose_trailing,   \* main(): true after --loose-trailing
  verbosity,        \* global verbosity
  dpc,              \* position inside decompress()
  first_member,     \* decompress(): loop variable
  header,           \* decompress(): bytes read into Lzip_header
  size,             \* decompress(): number of header bytes read
  d_retval,         \* decompress(): retval
  checked,          \* header checks passed for the current header, in order
  ndecoded,         \* calls of LZd_decode_member so far
  outdata,          \* bytes written to outfd by the decoder
  diag              \* messages handed to Pp_show_msg / show_file_error

dvars == <<input, pos, ignore_trailing, loose_trailing, verbosity, dpc,
           first_member, header, size, d_retval, checked, ndecoded,
           outdata, diag>>

\* state of main(), compress() and the functions that handle the output file
VARIABLES
  program_mode,     \* main(): "compress", "decompress" or "test"
  to_stdout,        \* main(): -c given
  to_file,          \* main(): -o given (default_output_filename not empty)
  force,            \* main(): -f given
  keep_input_files, \* main(): -k given
  volume_size,      \* main(): -S value, 0 when not given
  member_size,      \* main(): -b value
  filenames,        \* main(): the non-option arguments, "-" is stdin
  mpc,              \* position inside main() and the functions it calls
  file_i,           \* main(): loop variable i, index into filenames (0-based)
  stdin_used,       \* main(): stdin already processed
  input_filename,   \* main(): "" when the input is stdin
  retval,           \* main(): retval
  failed_tests,     \* main(): failed_tests
  tmp,              \* main(): status of the current file
  filestat,         \* history: the status every input file ended with
  outfd,            \* global outfd
  fd_file,          \* the file descriptor FileFd refers to, NoFile when closed
  output_filename,  \* global output_filename
  delete_output_on_interrupt,
  fs,               \* output files known to exist, by name
  written,          \* bytes written to the file behind outfd since it was opened
  removed,          \* input files removed by main()
  sig,              \* disposition of SIGHUP, SIGINT and SIGTERM
  signalled,        \* history: signal_handler has run
  exit_status,      \* Running until the process exits
  cf_retval,        \* cleanup_and_fail(): argument
  cs_ret,           \* close_and_set_permissions(): caller
  oo_ret,           \* open_outstream(): caller
  oo_force,         \* open_outstream(): argument force
  partial_volume_size, \* compress(): partial_volume_size
  c_retval,         \* compress(): retval
  nenc,             \* compress(): members encoded by this call
  enc_error,        \* history: an encode_member call of this run returned false
  in_empty,         \* compress(): the input behind infd holds no data
  data_finished     \* compress(): Mb_data_finished after the last member

\* state of the option loop of main() and of the encoder arguments it sets
VARIABLES
  encoder_options,  \* main(): struct Lzma_options encoder_options
  zero,             \* main(): the level-0 flag
  opc,              \* "options" while options are parsed, then where it led
  noptions,         \* options parsed so far
  last_opt          \* history: the last of -0..-9, -m and -s that was parsed

optvars == <<encoder_options, zero, opc, noptions, last_opt>>

cfgvars == <<program_mode, to_stdout, to_file, force, keep_input_files,
             volume_size, member_size, filenames, optvars>>
loopvars == <<file_i, stdin_used, input_filename, retval, failed_tests, tmp, filestat>>
outvars == <<outfd, fd_file, output_filename, delete_output_on_interrupt,
             fs, written>>
ctlvars == <<sig, signalled, exit_status, cf_retval, cs_ret, oo_ret, oo_force>>
compvars == <<partial_volume_size, c_retval, nenc, enc_error, in_empty,
              data_finished>>

mvars == <<cfgvars, loopvars, outvars, ctlvars, compvars, mpc, removed>>

vars == <<dvars, mvars>>

\* ----------------------------------------------------------------- inputs
Payloads == {<<1>>, <<2>>}

Hdr(magic, version, ds) == Bytes(magic \o <<version, ds>>)

\* each magic byte either right or zero
MagicPatterns ==
  { [i \in 1..4 |-> IF i \in S THEN lzip_magic[i] ELSE 0] : S \in SUBSET (1..4) }

BadMagics == MagicPatterns \ {lzip_magic}

\* a well-formed member: header, payload and trailer that decode cleanly
Member(ds, d) == Hdr(lzip_magic, 1, ds) \o <<Body(0, d)>>

ValidMembers == { Member(12, <<1>>), Member(29, <<2>>) }

RECURSIVE Prefixes(_)
Prefixes(n) ==
  IF n = 0 THEN {<<>>}
  ELSE LET P == Prefixes(n - 1)
       IN  P \cup { p \o m : p \in P, m \in ValidMembers }

\* what may follow an item that stops the decoder (never read)
Rests == {<<>>, Member(12, <<1>>)}

\* 0 to 6 bytes that end the input at a header position
Tails ==
  { Bytes(SubSeq(m \o <<1, 12>>, 1, n)) : m \in MagicPatterns, n \in 0..Lh_size }
  \cup { Hdr(lzip_magic, 2, ds) : ds \in {11, 12} }
  \cup { Hdr(lzip_magic, 1, 30) }

\* a full header failing the magic check, with more input behind it
BadMagicItems ==
  { Hdr(m, 1, 12) \o r : m \in BadMagics, r \in {Bytes(<<0>>), Member(12, <<1>>)} }

\* right magic, wrong version and/or dictionary size, payload behind it
BadHeaderItems ==
  { Hdr(lzip_magic, vd[1], vd[2]) \o <<Body(0, <<1>>)>> :
      vd \in {<<0, 12>>, <<2, 12>>, <<1, 11>>, <<1, 30>>, <<2, 11>>} }

\* valid header, payload or trailer that does not decode:
\* 1 = decoder error, 2 = unexpected EOF, 3 = trailer mismatch
FailingItems ==
  { Hdr(lzip_magic, 1, 12) \o <<Body(r, d)>> \o rest :
      r \in {1, 3}, d \in {<<>>, <<9>>}, rest \in Rests }
  \cup { Hdr(lzip_magic, 1, 12) \o <<Body(2, d)>> : d \in {<<>>, <<9>>} }

Terminals == Tails \cup BadMagicItems \cup BadHeaderItems \cup FailingItems

Streams == { p \o t : p \in Prefixes(MaxMembers), t \in Terminals }

Verbosities == {0, 4}

\* ------------------------------------------------------------ decompress
\* bytes Rd_read_data copies: up to n bytes, fewer at end of input
Rd_read_data(n) ==
  LET sz == Min(n, Len(input) - pos)
  IN  [i \in 1..sz |-> input[pos + i].v]

\* Rd_finished after the read: no input left
Rd_finished(p) == p >= Len(input)

\* mutant: "ignore_trailing >= 0" in place of "> 0"
show_trailing_data_Mut(sz, all, ign) ==
  [ ok   |-> ign >= 0,
    msgs |-> IF verbosity >= 4 \/ ign <= 0
             THEN <<IF all THEN "trailing data" ELSE "first bytes of trailing data">>
                  \o (IF ign = 0 THEN <<trailing_msg>> ELSE <<>>)
             ELSE <<>> ]

\* show_trailing_data: result and the messages it issues
show_trailing_data(sz, all, ign) ==
  [ ok   |-> ign > 0,
    msgs |-> IF verbosity >= 4 \/ ign <= 0
             THEN <<IF all THEN "trailing data" ELSE "first bytes of trailing data">>
                  \o (IF ign = 0 THEN <<trailing_msg>> ELSE <<>>)
             ELSE <<>> ]

BoolInt(b) == IF b THEN 1 ELSE 0

\* mutant: every end of input at a header position is an unexpected end
EofOutcome_Mut(hd, sz) ==
  IF first_member \/ sz = 0
  THEN [next |-> "d_ret", retval |-> 2, msgs |-> <<eof_header_msg>>]
  ELSE IF Lh_verify_prefix(hd, sz)
  THEN [next |-> "d_ret", retval |-> 2,
        msgs |-> <<trunc_header_msg>> \o show_trailing_data(sz, TRUE, -1).msgs]
  ELSE LET t == show_trailing_data(sz, TRUE, BoolInt(ignore_trailing))
       IN  [next |-> "d_ret", retval |-> IF t.ok THEN 0 ELSE 2, msgs |-> t.msgs]

\* mutant: the first member treated like a later one
EofOutcome_NoFirst(hd, sz) ==
  IF Lh_verify_prefix(hd, sz)
  THEN [next |-> "d_ret", retval |-> 2,
        msgs |-> <<trunc_header_msg>> \o show_trailing_data(sz, TRUE, -1).msgs]
  ELSE IF sz > 0
  THEN LET t == show_trailing_data(sz, TRUE, BoolInt(ignore_trailing))
       IN  [next |-> "d_ret", retval |-> IF t.ok THEN 0 ELSE 2, msgs |-> t.msgs]
  ELSE [next |-> "d_ret", retval |-> 0, msgs |-> <<>>]

\* mutant: the test for a truncated header left out
EofOutcome_NoPrefix(hd, sz) ==
  IF first_member
  THEN [next |-> "d_ret", retval |-> 2, msgs |-> <<eof_header_msg>>]
  ELSE IF sz > 0
  THEN LET t == show_trailing_data(sz, TRUE, BoolInt(ignore_trailing))
       IN  [next |-> "d_ret", retval |-> IF t.ok THEN 0 ELSE 2, msgs |-> t.msgs]
  ELSE [next |-> "d_ret", retval |-> 0, msgs |-> <<>>]

\* the End Of File branch of decompress()
EofOutcome(hd, sz) ==
  IF first_member
  THEN [next |-> "d_ret", retval |-> 2, msgs |-> <<eof_header_msg>>]
  ELSE IF Lh_verify_prefix(hd, sz)
  THEN [next |-> "d_ret", retval |-> 2,
        msgs |-> <<trunc_header_msg>> \o show_trailing_data(sz, TRUE, -1).msgs]
  ELSE IF sz > 0
  THEN LET t == show_trailing_data(sz, TRUE, BoolInt(ignore_trailing))
       IN  [next |-> "d_ret", retval |-> IF t.ok THEN 0 ELSE 2, msgs |-> t.msgs]
  ELSE [next |-> "d_ret", retval |-> 0, msgs |-> <<>>]

\* mutant: the corrupt-header test without "!loose_trailing &&"
BadMagicOutcome_Mut(hd, sz) ==
  IF first_member
  THEN [next |-> "d_ret", retval |-> 2, msgs |-> <<bad_magic_msg>>]
  ELSE IF Lh_verify_corrupt(hd)
  THEN [next |-> "d_ret", retval |-> 2,
        msgs |-> <<corrupt_mm_msg>> \o show_trailing_data(sz, FALSE, -1).msgs]
  ELSE LET t == show_trailing_data(sz, FALSE, BoolInt(ignore_trailing))
       IN  [next |-> "d_ret", retval |-> IF t.ok THEN 0 ELSE 2, msgs |-> t.msgs]

\* the failed-magic branch of decompress()
BadMagicOutcome(hd, sz) ==
  IF first_member
  THEN [next |-> "d_ret", retval |-> 2, msgs |-> <<bad_magic_msg>>]
  ELSE IF ~loose_trailing /\ Lh_verify_corrupt(hd)
  THEN [next |-> "d_ret", retval |-> 2,
        msgs |-> <<corrupt_mm_msg>> \o show_trailing_data(sz, FALSE, -1).msgs]
  ELSE LET t == show_trailing_data(sz, FALSE, BoolInt(ignore_trailing))
       IN  [next |-> "d_ret", retval |-> IF t.ok THEN 0 ELSE 2, msgs |-> t.msgs]

\* mutant: the version check left out
VersionOutcome_Mut(hd) == [next |-> "d_dict", retval |-> 0, msgs |-> <<>>]

\* if( !Lh_verify_version( header ) ) { ...; retval = 2; break; }
VersionOutcome(hd) ==
  IF ~Lh_verify_version(hd)
  THEN [next |-> "d_ret", retval |-> 2, msgs |-> <<bad_version(Lh_version(hd))>>]
  ELSE [next |-> "d_dict", retval |-> 0, msgs |-> <<>>]

\* if( !isvalid_ds( dictionary_size ) ) { ...; retval = 2; break; }
DictSizeOutcome(hd) ==
  IF ~isvalid_ds(Lh_get_dictionary_size(hd))
  THEN [next |-> "d_ret", retval |-> 2, msgs |-> <<bad_dict_msg>>]
  ELSE [next |-> "d_init", retval |-> 0, msgs |-> <<>>]

\* mutant: out of memory reported as corrupt input
InitOutcome_Mut(ok) ==
  IF ~ok
  THEN [next |-> "d_ret", retval |-> 2, msgs |-> <<mem_msg>>]
  ELSE [next |-> "d_decode", retval |-> 0, msgs |-> <<>>]

\* if( !LZd_init( ... ) ) { Pp_show_msg( pp, mem_msg ); retval = 1; break; }
InitOutcome(ok) ==
  IF ~ok
  THEN [next |-> "d_ret", retval |-> 1, msgs |-> <<mem_msg>>]
  ELSE [next |-> "d_decode", retval |-> 0, msgs |-> <<>>]

\* mutant: a failed member does not leave the loop
DecodeOutcome_Mut(result) == [next |-> "d_read", retval |-> 0, msgs |-> <<>>]

\* if( result != 0 ) { ...; retval = 2; break; }
DecodeOutcome(result) ==
  IF result # 0
  THEN [next |-> "d_ret", retval |-> 2,
        msgs |-> IF verbosity >= 0 /\ result <= 2
                 THEN <<IF result = 2 THEN "File ends unexpectedly"
                                      ELSE "Decoder error">>
                 ELSE <<>>]
  ELSE [next |-> "d_read", retval |-> 0, msgs |-> <<>>]

\* decompress() runs while main() is inside its call; it changes none of
\* main()'s variables
DUnchangedCfg ==
  /\ mpc = "decompress"
  /\ UNCHANGED <<input, ignore_trailing, loose_trailing, verbosity>>
  /\ UNCHANGED mvars

\* a step of decompress() that ends in "break" sets retval; others keep it
DApply(o) ==
  /\ dpc' = o.next
  /\ diag' = diag \o o.msgs
  /\ d_retval' = IF o.next = "d_ret" THEN o.retval ELSE d_retval

\* Rd_read_data( &rdec, header, Lh_size ) and the End Of File test
DReadHeader ==
  /\ dpc = "d_read"
  /\ LET hd == Rd_read_data(Lh_size)
         sz == Len(hd)
     IN  /\ header' = hd
         /\ size' = sz
         /\ pos' = pos + sz
         /\ checked' = <<>>
         /\ IF Rd_finished(pos + sz)
            THEN DApply(EofOutcome(hd, sz))
            ELSE DApply([next |-> "d_magic", retval |-> 0, msgs |-> <<>>])
  /\ DUnchangedCfg
  /\ UNCHANGED <<first_member, ndecoded, outdata>>

\* if( !Lh_verify_magic( header ) ) { ...; break; }
DCheckMagic ==
  /\ dpc = "d_magic"
  /\ IF ~Lh_verify_magic(header)
     THEN DApply(BadMagicOutcome(header, size))
     ELSE DApply([next |-> "d_version", retval |-> 0, msgs |-> <<>>])
  /\ checked' = IF Lh_verify_magic(header) THEN Append(checked, "magic") ELSE checked
  /\ DUnchangedCfg
  /\ UNCHANGED <<pos, first_member, header, size, ndecoded, outdata>>

DCheckVersion ==
  /\ dpc = "d_version"
  /\ DApply(VersionOutcome(header))
  /\ checked' = IF VersionOutcome(header).next # "d_ret"
                THEN Append(checked, "version") ELSE checked
  /\ DUnchangedCfg
  /\ UNCHANGED <<pos, first_member, header, size, ndecoded, outdata>>

DCheckDictSize ==
  /\ dpc = "d_dict"
  /\ DApply(DictSizeOutcome(header))
  /\ checked' = IF DictSizeOutcome(header).next # "d_ret"
                THEN Append(checked, "dict") ELSE checked
  /\ DUnchangedCfg
  /\ UNCHANGED <<pos, first_member, header, size, ndecoded, outdata>>

\* LZd_init allocates the dictionary buffer: malloc may fail
DInitDecoder ==
  /\ dpc = "d_init"
  /\ \E ok \in BOOLEAN : DApply(InitOutcome(ok))
  /\ DUnchangedCfg
  /\ UNCHANGED <<pos, first_member, header, size, checked, ndecoded, outdata>>

\* result of LZd_decode_member on what lies behind the header
LZd_result(tok) == IF tok.kind = "body" THEN tok.res ELSE 1

\* result = LZd_decode_member( &decoder, pp ); the decoder writes to outfd
DDecodeMember ==
  /\ dpc = "d_decode"
  /\ LET tok == input[pos + 1]
         o == DecodeOutcome(LZd_result(tok))
     IN  /\ pos' = pos + 1
         /\ ndecoded' = ndecoded + 1
         /\ outdata' = outdata \o tok.data
         /\ DApply(o)
         /\ first_member' = IF o.next = "d_ret" THEN first_member ELSE FALSE
  /\ DUnchangedCfg
  /\ UNCHANGED <<header, size, checked>>

\* ===================================================================
\* main(): the loop over the input files, compress(), the output file
\* and the signal handler
\* ===================================================================
\* Largest number of file names on the command line.
MaxFiles == 2
\* Largest number of members compress() encodes from one input: the
\* encoder reports the end of the data at the latest with this member.
MaxEncMembers == 3

STDOUT_FILENO == 1
\* the descriptor open() returns in open_outstream
FileFd == 3
\* exit_status while the process has not exited
Running == -1
\* next_filename(): the last name five decimal digits can hold
max_volumes == 99999
\* getnum( arg, 100000, ... ): the smallest -b and -S value
min_size_arg == 100000
Lt_size == 20
MinMemberSize == Lh_size + Lt_size

\* an output file name: the name it derives from and the volume number
\* written as five digits before the extension (0: no digits)
NoFile == [b |-> "", v |-> 0]
FileName(base, multifile) == [b |-> base, v |-> IF multifile THEN 1 ELSE 0]

Modes == {"compress", "decompress", "test"}
AllNames == <<"a", "b", "c", "d">>
NamedBefore(f, j) == Cardinality({k \in 1..(j - 1) : f[k] # "-"})

\* argument lists of 1..MaxFiles names; the k-th named file is AllNames[k]
Filenames ==
  { f \in UNION { [1..n -> {"-"} \cup {AllNames[k] : k \in 1..MaxFiles}] : n \in 1..MaxFiles } :
      \A j \in 1..Len(f) : f[j] = "-" \/ f[j] = AllNames[NamedBefore(f, j) + 1] }

VolumeSizes == {0, min_size_arg + min_size_arg \div 2}
MemberSizes == {min_size_arg}

\* compressed inputs main() hands to decompress(): one that decodes and one
\* whose member fails after part of its data was written
MainStreams ==
  { Member(12, <<1>>), Hdr(lzip_magic, 1, 12) \o <<Body(3, <<9>>)>> }

filenames_given == \E j \in 1..Len(filenames) : filenames[j] # "-"
one_to_one == ~to_stdout /\ program_mode # "test" /\ ~to_file

set_retval(old, new) == IF old < new THEN new ELSE old

\* if( !to_stdout && program_mode != m_test && ( filenames_given || to_file ) )
HandlerInstalled(mode, stdout, tofile, given) ==
  ~stdout /\ mode # "test" /\ (given \/ tofile)

\* mutant: a failed file ends the run in test mode too
FailureAction_Mut(mode, t) ==
  IF t = 0 THEN "none" ELSE "cleanup"

\* if( tmp ) { if( program_mode != m_test ) cleanup_and_fail( retval );
\*             else ++failed_tests; }
FailureAction(mode, t) ==
  IF t = 0 THEN "none"
  ELSE IF mode # "test" THEN "cleanup" ELSE "count"

\* mutant: the cap ignores what the volume already holds
MemberCap_Mut(ms, vs, pvs) ==
  IF vs > 0 THEN Min(ms, vs) ELSE ms

\* size = ( volume_size > 0 ) ?
\*   min( member_size, volume_size - partial_volume_size ) : member_size
MemberCap(ms, vs, pvs) ==
  IF vs > 0 THEN Min(ms, vs - pvs) ELSE ms

\* mutant: the volume counts as full only when nothing more fits
VolumeFull_Mut(pvs, vs) == pvs >= vs

\* if( partial_volume_size >= volume_size - min_dictionary_size )
VolumeFull(pvs, vs) == pvs >= vs - min_dictionary_size

\* sizes a member encoded under the cap may have
EncodedSizes(cap) ==
  { s \in {MinMemberSize, cap - min_dictionary_size, cap} :
      MinMemberSize <= s /\ s <= cap }

\* next_filename(): increment the five digits, false when they wrap
next_filename(n) ==
  IF n.v >= 1 /\ n.v < max_volumes
  THEN [ok |-> TRUE, name |-> [n EXCEPT !.v = n.v + 1]]
  ELSE [ok |-> FALSE, name |-> [n EXCEPT !.v = 0]]

\* mutant: the encoder failure is reported but the loop goes on
EncodeFailure_Mut ==
  [retval |-> 1, next |-> "c_encode"]

\* { Pp_show_msg( pp, "Encoder error." ); retval = 1; break; }
EncodeFailure ==
  [retval |-> 1, next |-> "c_ret"]

\* ------------------------------------------------------- option parsing
\* options parsed in one run of the option loop
MaxOptions == 3

min_match_len_limit == 5
max_match_len == 273

Lzma_options(ds, mll) == [dictionary_size |-> ds, match_len_limit |-> mll]

\* const struct Lzma_options option_mapping[], indexed by the level 0..9
option_mapping ==
  LET t == << Lzma_options(2^16, 16),
              Lzma_options(2^20, 5),
              Lzma_options(3 * 2^19, 6),
              Lzma_options(2^21, 8),
              Lzma_options(3 * 2^20, 12),
              Lzma_options(2^22, 20),
              Lzma_options(2^23, 36),
              Lzma_options(2^24, 68),
              Lzma_options(3 * 2^23, 132),
              Lzma_options(2^25, 273) >>
  IN  [k \in 0..9 |-> t[k + 1]]

\* encoder_options = option_mapping[6]
default_level == 6

\* an option argument as strtoull and strtol see it: digits tells whether
\* a number was parsed at all, num is its value, tail what follows it
NumArg(digits, num, tail) == [digits |-> digits, num |-> num, tail |-> tail]

\* the switch on tail[0] in getnum; 0 is a bad multiplier
Exponent(ch, factor) ==
  CASE ch = "Y" -> 8
    [] ch = "Z" -> 7
    [] ch = "E" -> 6
    [] ch = "P" -> 5
    [] ch = "T" -> 4
    [] ch = "G" -> 3
    [] ch = "M" -> 2
    [] ch = "K" -> IF factor = 1024 THEN 1 ELSE 0
    [] ch = "k" -> IF factor = 1000 THEN 1 ELSE 0
    [] OTHER -> 0

\* for( i = 0; i < exponent; ++i )
\*   { if( ulimit / factor >= result ) result *= factor;
\*     else { errno = ERANGE; break; } }
RECURSIVE Scale(_, _, _, _)
Scale(result, factor, exponent, ulimit) ==
  IF exponent = 0 THEN [errno |-> FALSE, result |-> result]
  ELSE IF ulimit \div factor >= result
       THEN Scale(result * factor, factor, exponent - 1, ulimit)
       ELSE [errno |-> TRUE, result |-> result]

\* the last test of getnum: result < llimit || result > ulimit
OutOfLimits_Mut(result, llimit, ulimit) == FALSE

OutOfLimits(result, llimit, ulimit) == result < llimit \/ result > ulimit

\* getnum( ptr, llimit, ulimit ): ok is FALSE where the program exits with
\* status 1, else value is what getnum returns
getnum(arg, llimit, ulimit) ==
  IF ~arg.digits THEN [ok |-> FALSE, value |-> 0]
  ELSE IF arg.tail # <<>>
       THEN LET factor == IF Len(arg.tail) > 1 /\ arg.tail[2] = "i"
                          THEN 1024 ELSE 1000
                exponent == Exponent(arg.tail[1], factor)
                sc == Scale(arg.num, factor, exponent, ulimit)
            IN  IF exponent <= 0 THEN [ok |-> FALSE, value |-> 0]
                ELSE IF sc.errno \/ OutOfLimits(sc.result, llimit, ulimit)
                     THEN [ok |-> FALSE, value |-> 0]
                     ELSE [ok |-> TRUE, value |-> sc.result]
       ELSE IF OutOfLimits(arg.num, llimit, ulimit)
            THEN [ok |-> FALSE, value |-> 0]
            ELSE [ok |-> TRUE, value |-> arg.num]

\* get_dict_size( arg ): 12 to 29 without a tail are powers of two
get_dict_size(arg) ==
  IF /\ arg.digits
     /\ arg.num >= min_dictionary_bits
     /\ arg.num <= max_dictionary_bits
     /\ arg.tail = <<>>
  THEN [ok |-> TRUE, value |-> 2 ^ arg.num]
  ELSE getnum(arg, min_dictionary_size, max_dictionary_size)

\* arguments of -m on the command line
MatchLenArgs ==
  { NumArg(TRUE, n, <<>>) : n \in {0, 4, 5, 36, 273, 274} }
  \cup { NumArg(FALSE, 0, <<"x">>), NumArg(TRUE, 1, <<"k">>),
         NumArg(TRUE, 16, <<"B">>) }

\* arguments of -s on the command line
DictSizeArgs ==
  { NumArg(TRUE, n, <<>>) :
      n \in {11, 12, 29, 30, 4095, 4096, 65535, 2^29, 2^29 + 1} }
  \cup { NumArg(TRUE, 4, <<"K", "i">>), NumArg(TRUE, 3, <<"k">>),
         NumArg(TRUE, 12, <<"k">>), NumArg(TRUE, 512, <<"M", "i">>),
         NumArg(TRUE, 1, <<"G", "i">>), NumArg(TRUE, 64, <<"K">>),
         NumArg(FALSE, 0, <<>>) }

Levels == 0..9

\* Lh_set_dictionary_size( header, sz ): fails for a size that is not
\* valid, else codes the smallest size of the header format that holds sz
Lh_set_dictionary_size(sz) ==
  IF ~isvalid_ds(sz) THEN [ok |-> FALSE, header |-> <<>>]
  ELSE LET bits == CHOOSE b \in min_dictionary_bits..max_dictionary_bits :
                     2^b >= sz /\ (b = min_dictionary_bits \/ 2^(b - 1) < sz)
           base_size == 2^bits
           fraction == base_size \div 16
           fracs == IF sz > min_dictionary_size
                    THEN { i \in 0..7 : base_size - i * fraction >= sz }
                    ELSE {0}
           frac == CHOOSE i \in fracs : \A j \in fracs : j <= i
       IN  [ok |-> TRUE,
            header |-> lzip_magic \o <<1, bits + 32 * frac>>]

\* the test of compress() before the LZ encoder is allocated
EncoderArgsValid(opts) ==
  /\ Lh_set_dictionary_size(opts.dictionary_size).ok
  /\ opts.match_len_limit >= min_match_len_limit
  /\ opts.match_len_limit <= max_match_len

\* the option variables once the option loop is over without an option
OptIdle ==
  /\ encoder_options = option_mapping[default_level]
  /\ zero = FALSE
  /\ opc = "parsed"
  /\ noptions = 0
  /\ last_opt = <<>>

\* the variables of main() while decompress() is analysed on its own
MainIdle ==
  /\ program_mode = "decompress" /\ to_stdout = TRUE /\ to_file = FALSE
  /\ force = FALSE /\ keep_input_files = FALSE
  /\ volume_size = 0 /\ member_size = min_size_arg
  /\ filenames = <<"-">>
  /\ mpc = "decompress"
  /\ file_i = 0 /\ stdin_used = TRUE /\ input_filename = ""
  /\ retval = 0 /\ failed_tests = 0 /\ tmp = 0 /\ filestat = <<>>
  /\ outfd = STDOUT_FILENO /\ fd_file = NoFile /\ output_filename = NoFile
  /\ delete_output_on_interrupt = FALSE
  /\ fs = <<>> /\ written = 0 /\ removed = {}
  /\ sig = "default" /\ signalled = FALSE /\ exit_status = Running
  /\ cf_retval = 0 /\ cs_ret = "" /\ oo_ret = "" /\ oo_force = FALSE
  /\ partial_volume_size = 0 /\ c_retval = 0 /\ nenc = 0 /\ enc_error = FALSE
  /\ in_empty = FALSE /\ data_finished = FALSE
  /\ OptIdle

DInit ==
  /\ MainIdle
  /\ input \in Streams
  /\ pos = 0
  /\ ignore_trailing \in BOOLEAN
  /\ loose_trailing \in BOOLEAN
  /\ verbosity \in Verbosities
  /\ dpc = "d_read"
  /\ first_member = TRUE
  /\ header = <<>>
  /\ size = 0
  /\ d_retval = 0
  /\ checked = <<>>
  /\ ndecoded = 0
  /\ outdata = <<>>
  /\ diag = <<>>

DNext ==
  \/ DReadHeader
  \/ DCheckMagic
  \/ DCheckVersion
  \/ DCheckDictSize
  \/ DInitDecoder
  \/ DDecodeMember

\* decompress() called once on one input stream
SpecD == DInit /\ [][DNext]_vars

\* ===================================================================
\* main() as a state machine.  A step is one statement group between two
\* points where signal_handler may run.
\* ===================================================================
cleanup_and_fail(rv) == mpc' = "cf_ign" /\ cf_retval' = rv

FileStatus(codec, st) == [codec |-> codec, st |-> st]

\* main(), lines 1031-1057: the overrides, the tty check of stdout and
\* the installation of signal_handler
M_Start ==
  /\ mpc = "start"
  /\ IF program_mode = "compress" /\ volume_size > 0 /\ ~to_stdout
        /\ to_file /\ Len(filenames) > 1
     THEN /\ mpc' = "exited" /\ exit_status' = 1
          /\ UNCHANGED <<volume_size, to_stdout, to_file, outfd, sig>>
     ELSE LET vs == IF program_mode = "compress" THEN volume_size ELSE 0
              so == IF program_mode = "test" THEN FALSE ELSE to_stdout
              tf == ~so /\ program_mode # "test" /\ to_file
          IN  /\ volume_size' = vs /\ to_stdout' = so /\ to_file' = tf
              /\ \E tty \in (IF so /\ program_mode = "compress"
                             THEN BOOLEAN ELSE {FALSE}) :
                   IF tty
                   THEN /\ outfd' = STDOUT_FILENO
                        /\ mpc' = "exited" /\ exit_status' = 1
                        /\ sig' = sig
                   ELSE /\ outfd' = IF so THEN STDOUT_FILENO ELSE -1
                        /\ sig' = IF HandlerInstalled(program_mode, so, tf,
                                                      filenames_given)
                                  THEN "handler" ELSE sig
                        /\ mpc' = "loop" /\ exit_status' = exit_status
  /\ UNCHANGED <<program_mode, force, keep_input_files, member_size, filenames>>
  /\ UNCHANGED optvars
  /\ UNCHANGED <<loopvars, fd_file, output_filename,
                 delete_output_on_interrupt, fs, written>>
  /\ UNCHANGED <<signalled, cf_retval, cs_ret, oo_ret, oo_force>>
  /\ UNCHANGED <<compvars, removed, dvars>>

\* for( i = 0; i < num_filenames; ++i ): the loop is over
M_LoopEnd ==
  /\ mpc = "loop" /\ file_i >= Len(filenames)
  /\ mpc' = "end"
  /\ UNCHANGED <<cfgvars, loopvars, outvars, ctlvars, compvars, removed, dvars>>

\* if( stdin_used ) continue;
M_StdinAgain ==
  /\ mpc = "loop" /\ file_i < Len(filenames)
  /\ filenames[file_i + 1] = "-" /\ stdin_used
  /\ file_i' = file_i + 1
  /\ UNCHANGED <<stdin_used, input_filename, retval, failed_tests, tmp, filestat>>
  /\ UNCHANGED <<cfgvars, outvars, ctlvars, compvars, mpc, removed, dvars>>

\* check_tty_in() found a terminal: close, set_retval, and then
\* cleanup_and_fail unless testing
TtyInFailed ==
  /\ retval' = set_retval(retval, 1)
  /\ filestat' = Append(filestat, FileStatus(FALSE, 1))
  /\ IF program_mode # "test"
     THEN cleanup_and_fail(set_retval(retval, 1)) /\ file_i' = file_i
     ELSE mpc' = "loop" /\ file_i' = file_i + 1 /\ cf_retval' = cf_retval
  /\ UNCHANGED <<outfd, output_filename, oo_ret, oo_force>>

CanBeTty(possible) ==
  IF possible /\ program_mode \in {"decompress", "test"} THEN BOOLEAN ELSE {FALSE}

\* the input is stdin, lines 1068-1074
M_OpenStdin ==
  /\ mpc = "loop" /\ file_i < Len(filenames)
  /\ filenames[file_i + 1] = "-" /\ ~stdin_used
  /\ stdin_used' = TRUE
  /\ input_filename' = ""
  /\ \E tty \in CanBeTty(TRUE) :
       IF tty THEN TtyInFailed
       ELSE /\ outfd' = IF one_to_one THEN STDOUT_FILENO ELSE outfd
            /\ output_filename' = IF one_to_one THEN NoFile ELSE output_filename
            /\ mpc' = "tty_out"
            /\ UNCHANGED <<file_i, retval, filestat, cf_retval, oo_ret, oo_force>>
  /\ UNCHANGED <<failed_tests, tmp, fd_file, delete_output_on_interrupt, fs, written>>
  /\ UNCHANGED <<sig, signalled, exit_status, cs_ret>>
  /\ UNCHANGED <<cfgvars, compvars, removed, dvars>>

\* the input is a named file, lines 1075-1090 up to the call of
\* open_outstream; open_instream2 fails for a file that is not there
M_OpenNamed ==
  /\ mpc = "loop" /\ file_i < Len(filenames)
  /\ filenames[file_i + 1] # "-"
  /\ input_filename' = filenames[file_i + 1]
  /\ \E ok \in (IF filenames[file_i + 1] \in removed THEN {FALSE} ELSE BOOLEAN) :
       IF ~ok
       THEN /\ retval' = set_retval(retval, 1)
            /\ filestat' = Append(filestat, FileStatus(FALSE, 1))
            /\ file_i' = file_i + 1
            /\ UNCHANGED <<mpc, cf_retval, outfd, output_filename, oo_ret, oo_force>>
       ELSE \E tty \in CanBeTty(~one_to_one) :
              IF tty THEN TtyInFailed
              ELSE IF one_to_one
              THEN /\ output_filename' =
                        FileName(filenames[file_i + 1],
                                 program_mode = "compress" /\ volume_size > 0)
                   /\ oo_force' = force /\ oo_ret' = "main_one"
                   /\ mpc' = "oo_open"
                   /\ UNCHANGED <<file_i, retval, filestat, cf_retval, outfd>>
              ELSE /\ mpc' = "tty_out"
                   /\ UNCHANGED <<file_i, retval, filestat, cf_retval, outfd,
                                  output_filename, oo_ret, oo_force>>
  /\ UNCHANGED <<stdin_used, failed_tests, tmp>>
  /\ UNCHANGED <<fd_file, delete_output_on_interrupt, fs, written>>
  /\ UNCHANGED <<sig, signalled, exit_status, cs_ret>>
  /\ UNCHANGED <<cfgvars, compvars, removed, dvars>>

\* if( one_to_one && !check_tty_out( program_mode ) )
\*   { set_retval( &retval, 1 ); return retval; }
M_CheckTtyOut ==
  /\ mpc = "tty_out"
  /\ \E tty \in (IF one_to_one /\ program_mode = "compress"
                    /\ outfd = STDOUT_FILENO THEN BOOLEAN ELSE {FALSE}) :
       IF tty
       THEN /\ retval' = set_retval(retval, 1)
            /\ exit_status' = set_retval(retval, 1)
            /\ mpc' = "exited"
       ELSE /\ mpc' = "to_file"
            /\ UNCHANGED <<retval, exit_status>>
  /\ UNCHANGED <<file_i, stdin_used, input_filename, failed_tests, tmp, filestat>>
  /\ UNCHANGED <<sig, signalled, cf_retval, cs_ret, oo_ret, oo_force>>
  /\ UNCHANGED <<cfgvars, outvars, compvars, removed, dvars>>

\* if( to_file && outfd < 0 ): name the -o file and call open_outstream
M_ToFile ==
  /\ mpc = "to_file"
  /\ IF to_file /\ outfd < 0
     THEN /\ output_filename' =
               FileName("o", program_mode = "compress" /\ volume_size > 0)
          /\ oo_force' = force /\ oo_ret' = "main_o"
          /\ mpc' = "oo_open"
     ELSE /\ mpc' = "codec"
          /\ UNCHANGED <<output_filename, oo_force, oo_ret>>
  /\ UNCHANGED <<outfd, fd_file, delete_output_on_interrupt, fs, written>>
  /\ UNCHANGED <<sig, signalled, exit_status, cf_retval, cs_ret>>
  /\ UNCHANGED <<cfgvars, loopvars, compvars, removed, dvars>>

\* what open() finds under output_filename: nothing ("new"), a file
\* ("exists"), or a reason to fail other than EEXIST ("error")
OpenCases(n) == IF n \in DOMAIN fs THEN {"exists"} ELSE {"new", "exists", "error"}

\* if( force ) flags |= O_TRUNC; else flags |= O_EXCL;
OpenSucceeds(case, frc) == case = "new" \/ (case = "exists" /\ frc)

\* open_outstream(): outfd = open( output_filename, flags, outfd_mode );
OO_Open ==
  /\ mpc = "oo_open"
  /\ \E case \in OpenCases(output_filename) :
       IF OpenSucceeds(case, oo_force)
       THEN /\ outfd' = FileFd
            /\ fd_file' = output_filename
            /\ fs' = (output_filename :>
                        [own |-> TRUE, done |-> FALSE,
                         old |-> case = "exists"]) @@ fs
            /\ written' = 0
       ELSE /\ outfd' = -1
            /\ written' = written
            /\ fd_file' = fd_file
            /\ fs' = IF case = "exists"
                     THEN (output_filename :>
                             [own |-> FALSE, done |-> TRUE,
                              old |-> TRUE]) @@ fs
                     ELSE fs
  /\ mpc' = "oo_flag"
  /\ UNCHANGED <<output_filename, delete_output_on_interrupt>>
  /\ UNCHANGED <<cfgvars, loopvars, ctlvars, compvars, removed, dvars>>

\* open_outstream(): if( outfd >= 0 ) delete_output_on_interrupt = true;
\* return ( outfd >= 0 ); and what each caller does with the result
OO_Flag ==
  /\ mpc = "oo_flag"
  /\ delete_output_on_interrupt' = IF outfd >= 0 THEN TRUE
                                   ELSE delete_output_on_interrupt
  /\ CASE oo_ret = "main_one" ->
            IF outfd >= 0
            THEN /\ mpc' = "tty_out"
                 /\ UNCHANGED <<retval, filestat, file_i, exit_status, c_retval>>
            ELSE /\ retval' = set_retval(retval, 1)
                 /\ filestat' = Append(filestat, FileStatus(FALSE, 1))
                 /\ file_i' = file_i + 1
                 /\ mpc' = "loop"
                 /\ UNCHANGED <<exit_status, c_retval>>
       [] oo_ret = "main_o" ->
            IF outfd >= 0
            THEN /\ mpc' = "codec"
                 /\ UNCHANGED <<retval, filestat, file_i, exit_status, c_retval>>
            ELSE /\ exit_status' = 1
                 /\ mpc' = "exited"
                 /\ UNCHANGED <<retval, filestat, file_i, c_retval>>
       [] OTHER ->
            /\ c_retval' = IF outfd >= 0 THEN c_retval ELSE 1
            /\ mpc' = IF outfd >= 0 THEN "c_encode" ELSE "c_ret"
            /\ UNCHANGED <<retval, filestat, file_i, exit_status>>
  /\ UNCHANGED <<stdin_used, input_filename, failed_tests, tmp>>
  /\ UNCHANGED <<outfd, fd_file, output_filename, fs, written>>
  /\ UNCHANGED <<sig, signalled, cf_retval, cs_ret, oo_ret, oo_force>>
  /\ UNCHANGED <<partial_volume_size, nenc, enc_error, in_empty, data_finished>>
  /\ UNCHANGED <<cfgvars, removed, dvars>>

\* tmp = compress( ... ): the locals and the allocation of the encoder
M_CallCompress ==
  /\ mpc = "codec" /\ program_mode = "compress"
  /\ partial_volume_size' = 0
  /\ nenc' = 0
  /\ \E ok \in BOOLEAN :
       /\ c_retval' = IF ok THEN 0 ELSE 1
       /\ mpc' = IF ok THEN "c_encode" ELSE "c_ret"
  /\ in_empty' \in BOOLEAN
  /\ data_finished' = FALSE
  /\ UNCHANGED enc_error
  /\ UNCHANGED <<cfgvars, loopvars, outvars, ctlvars, removed, dvars>>

\* tmp = decompress( ... ) on one of the inputs
M_CallDecompress ==
  /\ mpc = "codec" /\ program_mode # "compress"
  /\ input' \in MainStreams
  /\ pos' = 0 /\ dpc' = "d_read" /\ first_member' = TRUE
  /\ header' = <<>> /\ size' = 0 /\ d_retval' = 0 /\ checked' = <<>>
  /\ ndecoded' = 0 /\ outdata' = <<>> /\ diag' = <<>>
  /\ mpc' = "decompress"
  /\ UNCHANGED <<ignore_trailing, loose_trailing, verbosity>>
  /\ UNCHANGED <<cfgvars, loopvars, outvars, ctlvars, compvars, removed>>

\* decompress() returns retval
D_Return ==
  /\ mpc = "decompress" /\ dpc = "d_ret"
  /\ tmp' = d_retval
  /\ dpc' = "d_idle"
  /\ mpc' = "after_codec"
  /\ UNCHANGED <<input, pos, ignore_trailing, loose_trailing, verbosity,
                 first_member, header, size, d_retval, checked, ndecoded,
                 outdata, diag>>
  /\ UNCHANGED <<file_i, stdin_used, input_filename, retval, failed_tests, filestat>>
  /\ UNCHANGED <<cfgvars, outvars, ctlvars, compvars, removed>>

\* compress(): the cap is computed and LZe_encode_member starts a member;
\* the encoder writes to outfd while the member is in progress
C_Encode ==
  /\ mpc = "c_encode"
  /\ nenc < MaxEncMembers
  /\ mpc' = "c_member"
  /\ UNCHANGED <<cfgvars, loopvars, outvars, ctlvars, compvars, removed, dvars>>

\* bytes appended to the file behind outfd
fd_write(n) ==
  IF outfd = FileFd /\ fd_file \in DOMAIN fs
  THEN written + n
  ELSE written

\* mutant: the loop goes on although the data is finished
AfterMember_Mut(fin, vs) ==
  IF vs > 0 THEN "c_vol" ELSE "c_encode"

\* if( Mb_data_finished( &encoder.eb->mb ) ) break;
\* if( volume_size > 0 ) { ... }
AfterMember(fin, vs) ==
  IF fin THEN "c_ret"
  ELSE IF vs > 0 THEN "c_vol"
  ELSE "c_encode"

\* compress(): LZe_encode_member returns; lines 641-649; an input without
\* data is finished with its first member
C_Member ==
  /\ mpc = "c_member"
  /\ LET cap == MemberCap(member_size, volume_size, partial_volume_size)
     IN  \E ok \in BOOLEAN :
           IF ~ok
           THEN /\ c_retval' = EncodeFailure.retval
                /\ mpc' = EncodeFailure.next
                /\ enc_error' = TRUE
                /\ nenc' = nenc + 1
                /\ UNCHANGED <<partial_volume_size, written, data_finished>>
           ELSE \E s \in EncodedSizes(cap), fin \in BOOLEAN :
                  /\ nenc + 1 >= MaxEncMembers => fin
                  /\ in_empty => fin
                  /\ data_finished' = fin
                  /\ nenc' = nenc + 1
                  /\ written' = fd_write(s)
                  /\ partial_volume_size' =
                       IF ~fin /\ volume_size > 0
                       THEN partial_volume_size + s
                       ELSE partial_volume_size
                  /\ mpc' = AfterMember(fin, volume_size)
                  /\ UNCHANGED <<c_retval, enc_error>>
  /\ UNCHANGED in_empty
  /\ UNCHANGED <<outfd, fd_file, output_filename, delete_output_on_interrupt, fs>>
  /\ UNCHANGED <<cfgvars, loopvars, ctlvars, removed, dvars>>

\* compress(), lines 650-655: is the volume full, is the file ours
C_Volume ==
  /\ mpc = "c_vol"
  /\ IF VolumeFull(partial_volume_size, volume_size)
     THEN /\ partial_volume_size' = 0
          /\ IF delete_output_on_interrupt
             THEN mpc' = "cs_close" /\ cs_ret' = "vol"
             ELSE mpc' = "c_encode" /\ cs_ret' = cs_ret
     ELSE /\ mpc' = "c_encode"
          /\ UNCHANGED <<partial_volume_size, cs_ret>>
  /\ UNCHANGED <<c_retval, nenc, enc_error, in_empty, data_finished>>
  /\ UNCHANGED <<sig, signalled, exit_status, cf_retval, oo_ret, oo_force>>
  /\ UNCHANGED <<cfgvars, loopvars, outvars, removed, dvars>>

\* compress(), lines 656-658: next_filename and the call of
\* open_outstream( true, in_statsp )
C_NextVolume ==
  /\ mpc = "c_next"
  /\ LET nf == next_filename(output_filename)
     IN  /\ output_filename' = nf.name
         /\ IF nf.ok
            THEN /\ oo_force' = TRUE /\ oo_ret' = "vol"
                 /\ mpc' = "oo_open"
                 /\ UNCHANGED c_retval
            ELSE /\ c_retval' = 1
                 /\ mpc' = "c_ret"
                 /\ UNCHANGED <<oo_force, oo_ret>>
  /\ UNCHANGED <<outfd, fd_file, delete_output_on_interrupt, fs, written>>
  /\ UNCHANGED <<sig, signalled, exit_status, cf_retval, cs_ret>>
  /\ UNCHANGED <<partial_volume_size, nenc, enc_error, in_empty, data_finished>>
  /\ UNCHANGED <<cfgvars, loopvars, removed, dvars>>

\* compress() returns retval; the encoder and its view of the input are
\* freed
C_Return ==
  /\ mpc = "c_ret"
  /\ tmp' = c_retval
  /\ mpc' = "after_codec"
  /\ in_empty' = FALSE
  /\ data_finished' = FALSE
  /\ UNCHANGED <<partial_volume_size, c_retval, nenc, enc_error>>
  /\ UNCHANGED <<file_i, stdin_used, input_filename, retval, failed_tests, filestat>>
  /\ UNCHANGED <<cfgvars, outvars, ctlvars, removed, dvars>>

\* main(), lines 1116-1122: close( infd ), set_retval, and the reaction
\* to a failed file
M_AfterCodec ==
  /\ mpc = "after_codec"
  /\ \E closed \in BOOLEAN :
       LET t == IF closed THEN tmp ELSE set_retval(tmp, 1)
           r == set_retval(retval, t)
           act == FailureAction(program_mode, t)
       IN  /\ tmp' = t
           /\ retval' = r
           /\ filestat' = Append(filestat, FileStatus(TRUE, t))
           /\ failed_tests' = IF act = "count" THEN failed_tests + 1
                              ELSE failed_tests
           /\ IF act = "cleanup"
              THEN cleanup_and_fail(r)
              ELSE mpc' = "close_out" /\ cf_retval' = cf_retval
  /\ UNCHANGED <<file_i, stdin_used, input_filename>>
  /\ UNCHANGED <<sig, signalled, exit_status, cs_ret, oo_ret, oo_force>>
  /\ UNCHANGED <<cfgvars, outvars, compvars, removed, dvars>>

\* if( delete_output_on_interrupt && one_to_one )
\*   close_and_set_permissions( in_statsp );
M_CloseOut ==
  /\ mpc = "close_out"
  /\ IF delete_output_on_interrupt /\ one_to_one
     THEN mpc' = "cs_close" /\ cs_ret' = "main_loop"
     ELSE mpc' = "rm_in" /\ cs_ret' = cs_ret
  /\ UNCHANGED <<sig, signalled, exit_status, cf_retval, oo_ret, oo_force>>
  /\ UNCHANGED <<cfgvars, loopvars, outvars, compvars, removed, dvars>>

\* close_and_set_permissions(): if( close( outfd ) != 0 )
\*   { show_error( ... ); cleanup_and_fail( 1 ); }
\* after a failed close the descriptor may or may not be released
CS_Close ==
  /\ mpc = "cs_close"
  /\ \E ok \in BOOLEAN, released \in BOOLEAN :
       /\ ok => released
       /\ fd_file' = IF released THEN NoFile ELSE fd_file
       /\ fs' = IF ok /\ fd_file \in DOMAIN fs
                THEN [fs EXCEPT ![fd_file].done = TRUE]
                ELSE fs
       /\ written' = IF released THEN 0 ELSE written
       /\ IF ok
          THEN mpc' = "cs_fd" /\ cf_retval' = cf_retval
          ELSE cleanup_and_fail(1)
  /\ UNCHANGED <<outfd, output_filename, delete_output_on_interrupt>>
  /\ UNCHANGED <<sig, signalled, exit_status, cs_ret, oo_ret, oo_force>>
  /\ UNCHANGED <<cfgvars, loopvars, compvars, removed, dvars>>

\* close_and_set_permissions(): outfd = -1;
CS_Fd ==
  /\ mpc = "cs_fd"
  /\ outfd' = -1
  /\ mpc' = "cs_flag"
  /\ UNCHANGED <<fd_file, output_filename, delete_output_on_interrupt, fs, written>>
  /\ UNCHANGED <<cfgvars, loopvars, ctlvars, compvars, removed, dvars>>

\* close_and_set_permissions(): delete_output_on_interrupt = false;
\* and the return to the caller
CS_Flag ==
  /\ mpc = "cs_flag"
  /\ delete_output_on_interrupt' = FALSE
  /\ mpc' = CASE cs_ret = "main_loop" -> "rm_in"
              [] cs_ret = "vol" -> "c_next"
              [] OTHER -> "ret"
  /\ UNCHANGED <<outfd, fd_file, output_filename, fs, written>>
  /\ UNCHANGED <<cfgvars, loopvars, ctlvars, compvars, removed, dvars>>

\* mutant: -k is not looked at
RemovesInput_Mut ==
  /\ input_filename # "" /\ one_to_one
  /\ (program_mode # "compress" \/ volume_size = 0)

\* if( input_filename[0] && !keep_input_files && one_to_one &&
\*     ( program_mode != m_compress || volume_size == 0 ) )
RemovesInput ==
  /\ input_filename # "" /\ ~keep_input_files /\ one_to_one
  /\ (program_mode # "compress" \/ volume_size = 0)

\* main(), lines 1126-1129: remove( input_filename ); ++i
M_RemoveInput ==
  /\ mpc = "rm_in"
  /\ removed' = IF RemovesInput THEN removed \cup {input_filename} ELSE removed
  /\ file_i' = file_i + 1
  /\ mpc' = "loop"
  /\ UNCHANGED <<stdin_used, input_filename, retval, failed_tests, tmp, filestat>>
  /\ UNCHANGED <<cfgvars, outvars, ctlvars, compvars, dvars>>

\* main(), lines 1130-1135, after the loop
M_End ==
  /\ mpc = "end"
  /\ IF delete_output_on_interrupt
     THEN /\ mpc' = "cs_close" /\ cs_ret' = "main_end"
          /\ UNCHANGED <<retval, fd_file>>
     ELSE /\ mpc' = "ret" /\ cs_ret' = cs_ret
          /\ IF outfd >= 0
             THEN \E ok \in BOOLEAN :
                    /\ retval' = IF ok THEN retval ELSE set_retval(retval, 1)
                    /\ fd_file' = IF outfd = FileFd THEN NoFile ELSE fd_file
             ELSE UNCHANGED <<retval, fd_file>>
  /\ UNCHANGED <<file_i, stdin_used, input_filename, failed_tests, tmp, filestat>>
  /\ UNCHANGED <<outfd, output_filename, delete_output_on_interrupt, fs, written>>
  /\ UNCHANGED <<sig, signalled, exit_status, cf_retval, oo_ret, oo_force>>
  /\ UNCHANGED <<cfgvars, compvars, removed, dvars>>

\* return retval;
M_Return ==
  /\ mpc = "ret"
  /\ exit_status' = retval
  /\ mpc' = "exited"
  /\ UNCHANGED <<sig, signalled, cf_retval, cs_ret, oo_ret, oo_force>>
  /\ UNCHANGED <<cfgvars, loopvars, outvars, compvars, removed, dvars>>

\* cleanup_and_fail(): set_signals( SIG_IGN );
CF_Ignore ==
  /\ mpc = "cf_ign"
  /\ sig' = "ignore"
  /\ mpc' = "cf_body"
  /\ UNCHANGED <<signalled, exit_status, cf_retval, cs_ret, oo_ret, oo_force>>
  /\ UNCHANGED <<cfgvars, loopvars, outvars, compvars, removed, dvars>>

\* the files left when output_filename is removed
fs_remove(n) == [m \in DOMAIN fs \ {n} |-> fs[m]]

\* cleanup_and_fail(): remove( output_filename ) under the flag
CleanupFiles(flag) == IF flag THEN fs_remove(output_filename) ELSE fs

\* cleanup_and_fail(), lines 493-503; signals are ignored by now
CF_Body ==
  /\ mpc = "cf_body"
  /\ delete_output_on_interrupt' = FALSE
  /\ outfd' = IF delete_output_on_interrupt /\ outfd >= 0 THEN -1 ELSE outfd
  /\ fd_file' = IF delete_output_on_interrupt /\ outfd = FileFd
                THEN NoFile ELSE fd_file
  /\ fs' = CleanupFiles(delete_output_on_interrupt)
  /\ written' = IF delete_output_on_interrupt /\ outfd = FileFd THEN 0 ELSE written
  /\ exit_status' = cf_retval
  /\ mpc' = "exited"
  /\ UNCHANGED output_filename
  /\ UNCHANGED <<sig, signalled, cf_retval, cs_ret, oo_ret, oo_force>>
  /\ UNCHANGED <<cfgvars, loopvars, compvars, removed, dvars>>

\* SIGHUP, SIGINT or SIGTERM is delivered while signal_handler is
\* installed: show_error, cleanup_and_fail( 1 ), whose first statement is
\* set_signals( SIG_IGN ); the handler never returns
Signal ==
  /\ sig = "handler"
  /\ mpc # "exited"
  /\ signalled' = TRUE
  /\ sig' = "ignore"
  /\ cf_retval' = 1
  /\ mpc' = "cf_body"
  /\ UNCHANGED <<exit_status, cs_ret, oo_ret, oo_force>>
  /\ UNCHANGED <<cfgvars, loopvars, outvars, compvars, removed, dvars>>

\* a signal delivered after set_signals( SIG_IGN ) has no effect
SignalIgnored ==
  /\ sig = "ignore"
  /\ mpc # "exited"
  /\ UNCHANGED vars

MInit ==
  /\ program_mode \in Modes
  /\ to_stdout \in BOOLEAN
  /\ to_file \in BOOLEAN
  /\ force \in BOOLEAN
  /\ keep_input_files \in BOOLEAN
  /\ volume_size \in (IF program_mode = "compress" THEN VolumeSizes ELSE {0})
  /\ member_size \in (IF program_mode = "compress" THEN MemberSizes
                      ELSE {min_size_arg})
  /\ filenames \in Filenames
  /\ mpc = "start"
  /\ file_i = 0 /\ stdin_used = FALSE /\ input_filename = ""
  /\ retval = 0 /\ failed_tests = 0 /\ tmp = 0 /\ filestat = <<>>
  /\ outfd = -1 /\ fd_file = NoFile /\ output_filename = NoFile
  /\ delete_output_on_interrupt = FALSE
  /\ fs = <<>> /\ written = 0 /\ removed = {}
  /\ sig = "default" /\ signalled = FALSE /\ exit_status = Running
  /\ cf_retval = 0 /\ cs_ret = "" /\ oo_ret = "" /\ oo_force = FALSE
  /\ partial_volume_size = 0 /\ c_retval = 0 /\ nenc = 0 /\ enc_error = FALSE
  /\ in_empty = FALSE /\ data_finished = FALSE
  /\ OptIdle
  /\ input = <<>> /\ pos = 0
  /\ ignore_trailing = TRUE /\ loose_trailing = FALSE /\ verbosity = 0
  /\ dpc = "d_idle" /\ first_member = TRUE /\ header = <<>> /\ size = 0
  /\ d_retval = 0 /\ checked = <<>> /\ ndecoded = 0 /\ outdata = <<>>
  /\ diag = <<>>

MNext ==
  \/ M_Start
  \/ M_LoopEnd
  \/ M_StdinAgain
  \/ M_OpenStdin
  \/ M_OpenNamed
  \/ M_CheckTtyOut
  \/ M_ToFile
  \/ OO_Open
  \/ OO_Flag
  \/ M_CallCompress
  \/ M_CallDecompress
  \/ DNext
  \/ D_Return
  \/ C_Encode
  \/ C_Member
  \/ C_Volume
  \/ C_NextVolume
  \/ C_Return
  \/ M_AfterCodec
  \/ M_CloseOut
  \/ CS_Close
  \/ CS_Fd
  \/ CS_Flag
  \/ M_RemoveInput
  \/ M_End
  \/ M_Return
  \/ CF_Ignore
  \/ CF_Body
  \/ Signal
  \/ SignalIgnored

\* one run of the program in compress, decompress or test mode
SpecMain == MInit /\ [][MNext]_vars

\* ------------------------------------------------- names of the volumes
\* file names as strings of characters
Chars == <<".", "0", "1", "2", "3", "4", "5", "6", "7", "8", "9", ":",
           "a", "l", "z">>

\* position in Chars, which lists the characters in the order of their codes
Ord(c) == CHOOSE k \in 1..Len(Chars) : Chars[k] = c

\* known_extensions[0].from
lz_ext == <<".", "l", "z">>

volume_digits == 5

too_many_msg == "Too many volume files."

\* set_c_outname( name, ..., multifile = true ): name, "00001", ".lz"
VolumeName(name) == name \o <<"0", "0", "0", "0", "1">> \o lz_ext

\* mutant: a digit '9' is left as it is when the carry moves on
IncDigits_Mut(name, i, j) ==
  LET low == { k \in 0..(volume_digits - 1) :
                 k >= j /\ Ord(name[i + j - k]) < Ord("9") }
  IN  IF low = {} THEN [ok |-> FALSE, name |-> name]
      ELSE LET k == CHOOSE m \in low : \A n \in low : m <= n
               at == i + j - k
           IN  [ok |-> TRUE,
                name |-> [name EXCEPT ![at] = Chars[Ord(name[at]) + 1]]]

\* for( ...; j < 5; --i, ++j )
\*   { if( output_filename[i] < '9' ) { ++output_filename[i]; return true; }
\*     else output_filename[i] = '0'; }
\* return false;
RECURSIVE IncDigits(_, _, _)
IncDigits(name, i, j) ==
  IF j >= volume_digits THEN [ok |-> FALSE, name |-> name]
  ELSE IF Ord(name[i]) < Ord("9")
       THEN [ok |-> TRUE,
             name |-> [name EXCEPT ![i] = Chars[Ord(name[i]) + 1]]]
       ELSE IncDigits([name EXCEPT ![i] = "0"], i - 1, j + 1)

\* next_filename() on the characters of output_filename
next_filename_str(name) ==
  IF Len(name) >= Len(lz_ext) + volume_digits
  THEN IncDigits(name, Len(name) - Len(lz_ext), 0)
  ELSE [ok |-> FALSE, name |-> name]

\* names given to the first volume: the name ends in a digit 9
VolumeBases == { <<"a", "9">> }

volrest == <<cfgvars, loopvars, fd_file, fs, written, ctlvars,
             partial_volume_size, nenc, enc_error, in_empty, data_finished,
             removed, input, pos, ignore_trailing, loose_trailing, verbosity,
             dpc, first_member, header, size, d_retval, checked, ndecoded,
             outdata>>

\* main(): set_c_outname and the first open_outstream, then compress()
\* fills the volume
V_SetName ==
  /\ mpc = "v_name"
  /\ \E name \in VolumeBases : output_filename' = VolumeName(name)
  /\ outfd' = FileFd
  /\ delete_output_on_interrupt' = TRUE
  /\ mpc' = "v_full"
  /\ UNCHANGED <<c_retval, diag, volrest>>

\* compress(): the volume is full; close_and_set_permissions, then
\* next_filename
V_NextVolume ==
  /\ mpc = "v_full" /\ delete_output_on_interrupt
  /\ outfd' = -1
  /\ delete_output_on_interrupt' = FALSE
  /\ LET nf == next_filename_str(output_filename)
     IN  /\ output_filename' = nf.name
         /\ IF nf.ok
            THEN /\ mpc' = "v_open"
                 /\ UNCHANGED <<c_retval, diag>>
            ELSE /\ diag' = Append(diag, too_many_msg)
                 /\ c_retval' = 1
                 /\ mpc' = "v_ret"
  /\ UNCHANGED volrest

\* compress(): open_outstream( true, in_statsp ) on the next name, then
\* the new volume is filled
V_Open ==
  /\ mpc = "v_open"
  /\ outfd' = FileFd
  /\ delete_output_on_interrupt' = TRUE
  /\ mpc' = "v_full"
  /\ UNCHANGED <<output_filename, c_retval, diag, volrest>>

VInit ==
  /\ OptIdle
  /\ program_mode = "compress" /\ to_stdout = FALSE /\ to_file = FALSE
  /\ force = FALSE /\ keep_input_files = FALSE
  /\ volume_size = min_size_arg /\ member_size = min_size_arg
  /\ filenames = <<"a">>
  /\ mpc = "v_name"
  /\ file_i = 0 /\ stdin_used = FALSE /\ input_filename = "a"
  /\ retval = 0 /\ failed_tests = 0 /\ tmp = 0 /\ filestat = <<>>
  /\ outfd = -1 /\ fd_file = NoFile /\ output_filename = <<>>
  /\ delete_output_on_interrupt = FALSE
  /\ fs = <<>> /\ written = 0 /\ removed = {}
  /\ sig = "handler" /\ signalled = FALSE /\ exit_status = Running
  /\ cf_retval = 0 /\ cs_ret = "" /\ oo_ret = "" /\ oo_force = FALSE
  /\ partial_volume_size = 0 /\ c_retval = 0 /\ nenc = 0 /\ enc_error = FALSE
  /\ in_empty = FALSE /\ data_finished = FALSE
  /\ input = <<>> /\ pos = 0
  /\ ignore_trailing = TRUE /\ loose_trailing = FALSE /\ verbosity = 0
  /\ dpc = "d_idle" /\ first_member = TRUE /\ header = <<>> /\ size = 0
  /\ d_retval = 0 /\ checked = <<>> /\ ndecoded = 0 /\ outdata = <<>>
  /\ diag = <<>>

VNext ==
  \/ V_SetName
  \/ V_NextVolume
  \/ V_Open

\* the names compress() gives to the volumes of one input
SpecVol == VInit /\ [][VNext]_vars

\* ---------------------------------------------------- the option loop
nonoptvars == <<program_mode, to_stdout, to_file, force, keep_input_files,
                volume_size, member_size, filenames, loopvars, outvars,
                ctlvars, compvars, mpc, removed, dvars>>

level_zero_Mut(code) == FALSE

\* zero = ( code == '0' );
level_zero(code) == code = 0

\* case '0' ... case '9'
O_Level ==
  /\ opc = "options" /\ noptions < MaxOptions
  /\ \E code \in Levels :
       /\ zero' = level_zero(code)
       /\ encoder_options' = option_mapping[code]
       /\ last_opt' = <<"level", code>>
  /\ noptions' = noptions + 1
  /\ UNCHANGED <<opc, nonoptvars>>

\* case 'm'
O_MatchLen ==
  /\ opc = "options" /\ noptions < MaxOptions
  /\ \E arg \in MatchLenArgs :
       LET r == getnum(arg, min_match_len_limit, max_match_len)
       IN  IF r.ok
           THEN /\ encoder_options' =
                     [encoder_options EXCEPT !.match_len_limit = r.value]
                /\ zero' = FALSE
                /\ last_opt' = <<"m", r.value>>
                /\ opc' = opc
           ELSE /\ opc' = "exited"
                /\ UNCHANGED <<encoder_options, zero, last_opt>>
  /\ noptions' = noptions + 1
  /\ UNCHANGED nonoptvars

\* case 's'
O_DictSize ==
  /\ opc = "options" /\ noptions < MaxOptions
  /\ \E arg \in DictSizeArgs :
       LET r == get_dict_size(arg)
       IN  IF r.ok
           THEN /\ encoder_options' =
                     [encoder_options EXCEPT !.dictionary_size = r.value]
                /\ zero' = FALSE
                /\ last_opt' = <<"s", r.value>>
                /\ opc' = opc
           ELSE /\ opc' = "exited"
                /\ UNCHANGED <<encoder_options, zero, last_opt>>
  /\ noptions' = noptions + 1
  /\ UNCHANGED nonoptvars

\* any other option: it leaves the encoder arguments alone
O_Other ==
  /\ opc = "options" /\ noptions < MaxOptions
  /\ noptions' = noptions + 1
  /\ UNCHANGED <<encoder_options, zero, last_opt, opc, nonoptvars>>

\* if( !code ) break;
O_End ==
  /\ opc = "options"
  /\ opc' = "parsed"
  /\ UNCHANGED <<encoder_options, zero, last_opt, noptions, nonoptvars>>

\* compress(): the choice of the encoder and the test of its arguments
O_Compress ==
  /\ opc = "parsed"
  /\ opc' = IF zero THEN "FLZe_init"
            ELSE IF EncoderArgsValid(encoder_options) THEN "LZe_init"
            ELSE "internal_error"
  /\ UNCHANGED <<encoder_options, zero, last_opt, noptions, nonoptvars>>

OInit ==
  /\ encoder_options = option_mapping[default_level]
  /\ zero = FALSE
  /\ opc = "options"
  /\ noptions = 0
  /\ last_opt = <<>>
  /\ program_mode = "compress" /\ to_stdout = FALSE /\ to_file = FALSE
  /\ force = FALSE /\ keep_input_files = FALSE
  /\ volume_size = 0 /\ member_size = min_size_arg
  /\ filenames = <<"-">>
  /\ mpc = "options"
  /\ file_i = 0 /\ stdin_used = FALSE /\ input_filename = ""
  /\ retval = 0 /\ failed_tests = 0 /\ tmp = 0 /\ filestat = <<>>
  /\ outfd = -1 /\ fd_file = NoFile /\ output_filename = NoFile
  /\ delete_output_on_interrupt = FALSE
  /\ fs = <<>> /\ written = 0 /\ removed = {}
  /\ sig = "default" /\ signalled = FALSE /\ exit_status = Running
  /\ cf_retval = 0 /\ cs_ret = "" /\ oo_ret = "" /\ oo_force = FALSE
  /\ partial_volume_size = 0 /\ c_retval = 0 /\ nenc = 0 /\ enc_error = FALSE
  /\ in_empty = FALSE /\ data_finished = FALSE
  /\ input = <<>> /\ pos = 0
  /\ ignore_trailing = TRUE /\ loose_trailing = FALSE /\ verbosity = 0
  /\ dpc = "d_idle" /\ first_member = TRUE /\ header = <<>> /\ size = 0
  /\ d_retval = 0 /\ checked = <<>> /\ ndecoded = 0 /\ outdata = <<>>
  /\ diag = <<>>

ONext ==
  \/ O_Level
  \/ O_MatchLen
  \/ O_DictSize
  \/ O_Other
  \/ O_End
  \/ O_Compress

\* the option loop of main() followed by the start of compress()
SpecOpt == OInit /\ [][ONext]_vars

\* ===================================================================
\* Stream analysis used to state the properties: how an input divides
\* into leading well-formed members and what is left behind them.
\* ===================================================================
HdrAt(s, p) == [i \in 1..Lh_size |-> s[p + i].v]

BytesAt(s, p, n) ==
  /\ Len(s) >= p + n
  /\ \A i \in 1..n : s[p + i].kind = "byte"

ValidHeaderAt(s, p) ==
  /\ BytesAt(s, p, Lh_size)
  /\ Lh_verify_magic(HdrAt(s, p))
  /\ Lh_verify_version(HdrAt(s, p))
  /\ isvalid_ds(Lh_get_dictionary_size(HdrAt(s, p)))

MemberLen == Lh_size + 1

IsMemberAt(s, p) ==
  /\ ValidHeaderAt(s, p)
  /\ Len(s) >= p + MemberLen
  /\ s[p + MemberLen].kind = "body"
  /\ s[p + MemberLen].res = 0

RECURSIVE ValidEnd(_, _)
ValidEnd(s, p) == IF IsMemberAt(s, p) THEN ValidEnd(s, p + MemberLen) ELSE p

\* number of leading well-formed members, and where they end
NumValid(s) == ValidEnd(s, 0) \div MemberLen
VEnd == ValidEnd(input, 0)

\* uncompressed data of the payloads among the first p tokens, in order
RECURSIVE DataOf(_, _)
DataOf(s, p) == IF p = 0 THEN <<>> ELSE DataOf(s, p - 1) \o s[p].data

\* what follows the leading members
RemLen == Len(input) - VEnd
RemBytes == [i \in 1..Min(RemLen, Lh_size) |-> input[VEnd + i].v]
RemIsBytes == BytesAt(input, VEnd, Min(RemLen, Lh_size))

Returned == dpc = "d_ret"
NoMemFailure == \A i \in 1..Len(diag) : diag[i] # mem_msg
InDiag(m) == \E i \in 1..Len(diag) : diag[i] = m

\* a member with a valid header whose payload or trailer fails to decode
FailingMemberAt(s, p) ==
  /\ ValidHeaderAt(s, p)
  /\ Len(s) >= p + MemberLen
  /\ s[p + MemberLen].kind = "body"
  /\ s[p + MemberLen].res # 0

\* one or more members followed by bytes that do not start with the magic
Garbage ==
  /\ NumValid(input) >= 1
  /\ RemLen > 0
  /\ RemIsBytes
  /\ ~(RemLen >= 4 /\ Lh_verify_magic(RemBytes))

\* garbage that does not look like a header: at most 6 bytes that are no
\* prefix of the magic, or more than 6 bytes that are no corrupt header
\* (or any, with --loose-trailing)
PlainTrailing ==
  /\ Garbage
  /\ IF RemLen <= Lh_size
     THEN ~Lh_verify_prefix(RemBytes, RemLen)
     ELSE loose_trailing \/ ~Lh_verify_corrupt(RemBytes)

CorruptHeaderNext ==
  /\ NumValid(input) >= 1
  /\ RemLen >= Lh_size
  /\ RemIsBytes
  /\ ~Lh_verify_magic(RemBytes)
  /\ Lh_verify_corrupt(RemBytes)

C2_Conclusion ==
  IF ~loose_trailing
  THEN d_retval = 2 /\ InDiag(corrupt_mm_msg)
  ELSE d_retval = (IF ignore_trailing THEN 0 ELSE 2) /\ ~InDiag(corrupt_mm_msg)

\* C2 as stated: after at least one valid member, 6 bytes that fail the magic
\* check but look like a corrupt header give status 2 with the corrupt-member
\* message whatever ignore_trailing is, unless loose_trailing is set; then
\* they are ordinary trailing data (0 if ignore_trailing, else 2).
C2_Original ==
  (Returned /\ NoMemFailure /\ CorruptHeaderNext) => C2_Conclusion

\* C2 amended: the same, provided input continues behind these 6 bytes; 6
\* such bytes that end the input are handled by the end-of-file branch as
\* ordinary trailing data.
C2_CorruptHeader ==
  (Returned /\ NoMemFailure /\ CorruptHeaderNext /\ RemLen > Lh_size)
     => C2_Conclusion

C2_Witness ==
  /\ Returned
  /\ CorruptHeaderNext
  /\ RemLen > Lh_size
  /\ ~loose_trailing
  /\ ignore_trailing
  /\ d_retval = 2
  /\ InDiag(corrupt_mm_msg)

\* -------------------------------------------------------------------
\* the decoder is reached only behind the three header checks, in order
ChecksBeforeDecoder ==
  dpc \in {"d_init", "d_decode"} =>
     /\ checked = <<"magic", "version", "dict">>
     /\ Lh_verify_magic(header)
     /\ Lh_verify_version(header)
     /\ isvalid_ds(Lh_get_dictionary_size(header))

\* a full header with the right magic behind the leading members
MagicHeaderNext == BytesAt(input, VEnd, Lh_size) /\ Lh_verify_magic(RemBytes)

\* nothing of the member behind the leading members was decoded
NothingDecoded ==
  /\ pos = VEnd + Lh_size
  /\ ndecoded = NumValid(input)
  /\ outdata = DataOf(input, VEnd)

BadVersionResult ==
  /\ d_retval = 2
  /\ diag # <<>>
  /\ diag[Len(diag)] = bad_version(Lh_version(RemBytes))
  /\ NothingDecoded

BadDictSizeNext ==
  /\ MagicHeaderNext
  /\ ~isvalid_ds(Lh_get_dictionary_size(RemBytes))

\* C3 as stated: the decoder is reached only after the magic, version and
\* dictionary-size checks passed, in that order; a header with the right
\* magic and a version byte N other than 1 gives status 2 with "Version N
\* member format not supported."; a dictionary size outside 4 KiB..512 MiB
\* gives status 2; in both cases nothing of that member is decoded.
C3_Original ==
  /\ ChecksBeforeDecoder
  /\ (Returned /\ NoMemFailure /\ MagicHeaderNext
        /\ ~Lh_verify_version(RemBytes)) => BadVersionResult
  /\ (Returned /\ NoMemFailure /\ BadDictSizeNext)
        => (d_retval = 2 /\ NothingDecoded)

\* C3 amended: the version message is given when input continues behind
\* the header; a header that ends the input is reported as an unexpected end
\* of file or a truncated header, still with status 2 and nothing decoded.
C3_HeaderChecks ==
  /\ ChecksBeforeDecoder
  /\ (Returned /\ NoMemFailure /\ MagicHeaderNext /\ RemLen > Lh_size
        /\ ~Lh_verify_version(RemBytes)) => BadVersionResult
  /\ (Returned /\ NoMemFailure /\ MagicHeaderNext
        /\ ~Lh_verify_version(RemBytes)) => (d_retval = 2 /\ NothingDecoded)
  /\ (Returned /\ NoMemFailure /\ BadDictSizeNext)
        => (d_retval = 2 /\ NothingDecoded)

\* scenario E: version byte 2 behind a valid member
C3_Witness ==
  /\ Returned
  /\ NumValid(input) = 1
  /\ MagicHeaderNext
  /\ RemLen > Lh_size
  /\ Lh_version(RemBytes) = 2
  /\ d_retval = 2
  /\ diag = <<"Version 2 member format not supported.">>

\* -------------------------------------------------------------------
\* the input is corrupt or invalid for the options in force: no valid first
\* member, a further header with the right magic that is not a well-formed
\* member (failed version or dictionary-size check, payload or trailer that
\* fails to decode, input ending in it), a truncated header, a corrupt
\* header, or trailing data that is not accepted
CorruptInput ==
  \/ NumValid(input) = 0
  \/ ~RemIsBytes
  \/ RemLen >= 4 /\ Lh_verify_magic(RemBytes)
  \/ RemLen <= Lh_size /\ Lh_verify_prefix(RemBytes, RemLen)
  \/ RemLen > Lh_size /\ ~loose_trailing /\ Lh_verify_corrupt(RemBytes)
  \/ RemLen > 0 /\ ~ignore_trailing

\* C4: decompress() returns 0, 1 or 2, never the status 3 of
\* internal_error(); 1 exactly when LZd_init ran out of memory; otherwise 2
\* exactly for corrupt or invalid input; and 0 only when every member was
\* decoded successfully.
C4_ExitCodes ==
  /\ d_retval \in {0, 1, 2}
  /\ d_retval # internal_error_status
  /\ Returned =>
       /\ (d_retval = 1) <=> ~NoMemFailure
       /\ NoMemFailure => ((d_retval = 2) <=> CorruptInput)
       /\ (d_retval = 0) =>
            /\ ndecoded = NumValid(input)
            /\ ndecoded >= 1
            /\ outdata = DataOf(input, VEnd)

\* each kind of return is reached: out of memory at the second member
C4_Witness ==
  /\ Returned
  /\ d_retval = 1
  /\ ndecoded = 1
  /\ ~NoMemFailure

\* -------------------------------------------------------------------
\* C5: members are decoded strictly in input order: the output is always
\* the data of the payloads consumed so far.  If member k is the first that
\* fails to decode, retval becomes 2 exactly when member k has been decoded,
\* decompress() returns there with the output of members 1..k-1 (and what
\* member k produced) written, and nothing behind member k is read.
C5_FailingMember ==
  /\ outdata = DataOf(input, pos)
  /\ (NoMemFailure /\ FailingMemberAt(input, VEnd)) =>
       /\ ndecoded <= NumValid(input) + 1
       /\ (d_retval = 2) <=> (ndecoded = NumValid(input) + 1)
       /\ (ndecoded = NumValid(input) + 1) =>
            /\ Returned
            /\ pos = VEnd + MemberLen
            /\ outdata = DataOf(input, VEnd) \o input[VEnd + MemberLen].data

\* scenario F: the second member's trailer does not match; the first
\* member's output is written and the member behind the second is not read
C5_Witness ==
  /\ Returned
  /\ NumValid(input) = 1
  /\ FailingMemberAt(input, VEnd)
  /\ input[VEnd + MemberLen].res = 3
  /\ Len(input) > VEnd + MemberLen
  /\ pos = VEnd + MemberLen
  /\ d_retval = 2
  /\ outdata = <<1>>

\* -------------------------------------------------------------------
\* C6: for an input that is the concatenation of one or more valid members
\* with nothing behind the last trailer, decompress() decodes every member,
\* writes their data in member order and returns 0; in particular the
\* members of a and b, concatenated, give a followed by b.
C6_Concatenation ==
  /\ (Returned /\ NoMemFailure /\ NumValid(input) >= 1 /\ RemLen = 0) =>
       /\ d_retval = 0
       /\ ndecoded = NumValid(input)
       /\ outdata = DataOf(input, Len(input))
       /\ diag = <<>>
  /\ \A a, b \in Payloads : \A da, db \in {12, 29} :
       (Returned /\ NoMemFailure /\ input = Member(da, a) \o Member(db, b))
          => (d_retval = 0 /\ outdata = a \o b)

C6_Witness ==
  /\ Returned
  /\ input = Member(29, <<2>>) \o Member(12, <<1>>)
  /\ d_retval = 0
  /\ outdata = <<2, 1>>

\* ===================================================================
\* Properties of main(), compress() and the cancellation path
\* ===================================================================
Exited == mpc = "exited"
CleanupPcs == {"cf_ign", "cf_body", "exited"}

\* output files this process created and did not close successfully
OwnUnfinished == { n \in DOMAIN fs : fs[n].own /\ ~fs[n].done }

\* input files whose compress()/decompress() status, after close( infd ),
\* was not zero
FailedCodec ==
  { k \in 1..Len(filestat) : filestat[k].codec /\ filestat[k].st # 0 }

MaxStatus(seq) ==
  IF seq = <<>> THEN 0
  ELSE CHOOSE m \in { seq[k].st : k \in 1..Len(seq) } :
         \A k \in 1..Len(seq) : seq[k].st <= m

C8_EncoderError ==
  enc_error =>
    /\ program_mode = "compress"
    /\ c_retval = 1
    /\ mpc \in {"c_ret", "after_codec"} \cup CleanupPcs
    /\ mpc = "after_codec" => tmp = 1
    /\ FailedCodec \subseteq {Len(filestat)}
    /\ Exited => /\ exit_status = 1
                 /\ sig = "ignore"
                 /\ OwnUnfinished = {}
                 /\ output_filename \notin DOMAIN fs

\* C8 witness: the second member of the first of two inputs failed; the
\* run ended with status 1, the output file is gone, the second input was
\* never opened
C8_Witness ==
  /\ enc_error /\ Exited /\ ~signalled
  /\ exit_status = 1
  /\ nenc = 2
  /\ file_i = 0 /\ Len(filenames) = 2
  /\ output_filename = FileName("a", FALSE)
  /\ output_filename \notin DOMAIN fs
  /\ Len(filestat) = 1

\* C9 as stated: after signal_handler has run, the process has exited with
\* status 1 only with every output file of its own either completed or
\* deleted, and with signals ignored.
C9_Original ==
  (Exited /\ signalled) =>
    /\ exit_status = 1
    /\ sig = "ignore"
    /\ OwnUnfinished = {}

\* C9, what the code does: after signal_handler has run the process exits
\* with status 1 and signals ignored; an unfinished output file of its own
\* is left only when the signal came between open() and the assignment to
\* delete_output_on_interrupt, so that cleanup_and_fail did not touch outfd.
C9_SignalCleanup ==
  (Exited /\ signalled) =>
    /\ exit_status = 1
    /\ sig = "ignore"
    /\ \/ OwnUnfinished = {}
       \/ /\ OwnUnfinished = {output_filename}
          /\ outfd = FileFd /\ fd_file = output_filename

\* C9 witness of the divergence: the signal was delivered between open()
\* and the assignment to delete_output_on_interrupt in open_outstream; the
\* process exited with status 1 and the file just created is still there
C9_Witness ==
  /\ Exited /\ signalled /\ exit_status = 1
  /\ output_filename \in OwnUnfinished
  /\ outfd = FileFd

\* a step that puts a new file behind outfd
OpensFile == fd_file' # fd_file /\ fd_file' # NoFile

\* C10: with a volume size set, a step that opens an output file is never
\* taken while a member is being encoded; the open of a later volume comes
\* after at least one whole member, with the previous volume closed; and no
\* file the process writes ever holds more than volume_size bytes.
C10_Volumes ==
  [][ /\ OpensFile =>
           /\ mpc = "oo_open" /\ mpc # "c_member"
           /\ oo_ret = "vol" =>
                /\ nenc >= 1
                /\ fd_file = NoFile
                /\ partial_volume_size = 0
                /\ fd_file'.v = output_filename.v
      /\ (volume_size' > 0 /\ fd_file' # NoFile) => written' <= volume_size'
    ]_vars

\* C10 witness: the second volume file holds a member, the first one
\* was closed complete
C10_Witness ==
  /\ volume_size > 0
  /\ fd_file = [b |-> "a", v |-> 2]
  /\ written > 0
  /\ [b |-> "a", v |-> 1] \in DOMAIN fs
  /\ fs[[b |-> "a", v |-> 1]].done
  /\ nenc = 3

\* output files that existed before this process opened and truncated them
Overwritten == { n \in DOMAIN fs : fs[n].own /\ fs[n].old }

\* C11 as stated: an output file that existed before is overwritten only
\* when --force was given, whichever output file of the run it is.
C11_Original ==
  Overwritten # {} => force

\* C11, what the code does: without --force the first output file of an
\* input is created exclusively; only the second and later volume files,
\* which compress() opens with open_outstream( true, ... ), are truncated
\* when they exist; and an open that finds the first file existing fails,
\* so that nothing is encoded or decoded into it.
C11_FirstFileExclusive ==
  ~force =>
    /\ \A n \in Overwritten : n.v >= 2
    /\ (mpc = "oo_flag" /\ oo_ret # "vol" /\ output_filename \in DOMAIN fs
          /\ fs[output_filename].old) => outfd < 0

\* C11 witness of the divergence: --force was not given and the second
\* volume, which existed, is open for writing behind outfd
C11_Witness ==
  /\ ~force
  /\ fd_file = [b |-> "a", v |-> 2]
  /\ fs[fd_file].old /\ fs[fd_file].own
  /\ mpc = "c_member"

\* C12: a step removes an input file only when output goes to a file named
\* after the input (no -c, no -o, not testing), -k was not given, the codec
\* status of that file after close( infd ) is 0, and the output file was
\* created by this process and closed successfully; with -c, -o, -k, or
\* a volume size when compressing, no input file is ever removed.
C12_InputRemoval ==
  [][ /\ removed' # removed =>
           /\ removed' = removed \cup {input_filename}
           /\ input_filename # ""
           /\ ~to_stdout /\ ~to_file /\ program_mode # "test"
           /\ ~keep_input_files
           /\ tmp = 0
           /\ filestat # <<>> /\ filestat[Len(filestat)] = FileStatus(TRUE, 0)
           /\ output_filename = FileName(input_filename, FALSE)
           /\ output_filename \in DOMAIN fs
           /\ fs[output_filename].own /\ fs[output_filename].done
           /\ fd_file = NoFile /\ ~delete_output_on_interrupt
      /\ (to_stdout' \/ to_file' \/ keep_input_files'
            \/ (program_mode' = "compress" /\ volume_size' > 0))
           => removed' = {}
    ]_vars

\* C12 witness: both inputs were decompressed to files of their own and
\* removed
C12_Witness ==
  /\ program_mode = "decompress"
  /\ removed = {"a", "b"}
  /\ Exited /\ exit_status = 0
  /\ fs[FileName("a", FALSE)].done /\ fs[FileName("b", FALSE)].done

\* C13: compress() returns 0 only after at least one member, the last of
\* which found the data finished; it returns without any member only when
\* the encoder could not be allocated; an input without data gets one
\* member and no more; and a further member is started only while the match
\* finder has not reported the data finished.
C13_AtLeastOneMember ==
  /\ (mpc = "c_ret" /\ c_retval = 0) => (nenc >= 1 /\ data_finished)
  /\ (mpc = "c_ret" /\ nenc = 0) => (c_retval = 1 /\ ~enc_error)
  /\ (mpc = "c_ret" /\ c_retval = 0 /\ in_empty) => nenc = 1
  /\ in_empty => nenc <= 1
  /\ (mpc \in {"c_encode", "c_member", "c_vol", "c_next"}) => ~data_finished
  /\ data_finished => mpc \in {"c_ret"} \cup CleanupPcs

\* C13 witness: compress() is about to return 0 for an input without data,
\* after one member
C13_Witness ==
  /\ mpc = "c_ret" /\ c_retval = 0
  /\ in_empty /\ nenc = 1 /\ data_finished
  /\ written >= MinMemberSize

\* ------------------------------------------------------------------ C14
\* the dictionary size LZe_init receives
HandedDictSize ==
  Lh_get_dictionary_size(
    Lh_set_dictionary_size(encoder_options.dictionary_size).header)

\* C14: whatever options were parsed without the program exiting, the
\* dictionary size is in [4 KiB, 512 MiB] (an argument 12..29 of -s meaning
\* 2^12..2^29) and the match length limit is in [5, 273], the LZ encoder
\* is handed a dictionary size in that range, and compress() never
\* reaches internal_error( "invalid argument to encoder." )
C14_EncoderArgs ==
  /\ opc # "exited" =>
       /\ encoder_options.dictionary_size >= min_dictionary_size
       /\ encoder_options.dictionary_size <= max_dictionary_size
       /\ encoder_options.match_len_limit >= min_match_len_limit
       /\ encoder_options.match_len_limit <= max_match_len
  /\ opc = "LZe_init" =>
       /\ HandedDictSize >= encoder_options.dictionary_size
       /\ HandedDictSize <= max_dictionary_size
  /\ \A b \in min_dictionary_bits..max_dictionary_bits :
       get_dict_size(NumArg(TRUE, b, <<>>)) = [ok |-> TRUE, value |-> 2^b]
  /\ opc # "internal_error"

\* -s 29 and -m 273 were given and the LZ encoder is about to be set up
C14_Witness ==
  /\ opc = "LZe_init"
  /\ noptions = 2
  /\ encoder_options = Lzma_options(max_dictionary_size, max_match_len)
  /\ last_opt = <<"m", max_match_len>>

\* ------------------------------------------------------------------ C19
LastIsFast == last_opt = <<"level", 0>>

\* what one parsed option may do to the encoder arguments
OptionEffect ==
  \/ UNCHANGED <<encoder_options, zero, last_opt>>
  \/ /\ last_opt' # <<>> /\ last_opt'[1] = "level"
     /\ encoder_options' = option_mapping[last_opt'[2]]
     /\ zero' = (last_opt'[2] = 0)
  \/ /\ last_opt' # <<>> /\ last_opt'[1] = "m"
     /\ encoder_options'.match_len_limit = last_opt'[2]
     /\ encoder_options'.dictionary_size = encoder_options.dictionary_size
     /\ ~zero'
  \/ /\ last_opt' # <<>> /\ last_opt'[1] = "s"
     /\ encoder_options'.dictionary_size = last_opt'[2]
     /\ encoder_options'.match_len_limit = encoder_options.match_len_limit
     /\ ~zero'

\* C19: the level-0 flag is set exactly when the last of -0..-9, -m and -s
\* is -0, and compress() then takes the fast encoder, else the LZ encoder;
\* a level option replaces both encoder arguments, -m and -s clear the
\* flag and change only their own argument
C19_FastEncoder ==
  /\ [](zero <=> LastIsFast)
  /\ [](opc = "FLZe_init" => LastIsFast)
  /\ [](opc \in {"LZe_init", "internal_error"} => ~LastIsFast)
  /\ [][noptions' # noptions /\ opc' = "options" => OptionEffect]_vars

\* -0 and then -m 36: the LZ encoder with the dictionary size of level 0
C19_Witness ==
  /\ opc = "LZe_init"
  /\ ~zero
  /\ last_opt = <<"m", 36>>
  /\ encoder_options =
       Lzma_options(option_mapping[0].dictionary_size, 36)

\* ------------------------------------------------------------------ C16
\* the input ends with the first header read: at most 6 bytes in all
FirstHeaderEof ==
  Len(input) <= Lh_size /\ BytesAt(input, 0, Len(input))

\* a full first header, input behind it, and the magic check fails
FirstBadMagic ==
  /\ Len(input) > Lh_size
  /\ BytesAt(input, 0, Lh_size)
  /\ ~Lh_verify_magic(HdrAt(input, 0))

\* C16: when the input is exhausted by the read of the first header (empty
\* input included) or the first header fails the magic check, decompress()
\* returns 2 whatever ignore_trailing and loose_trailing are, decodes
\* nothing and never reports trailing data
C16_FirstMember ==
  (Returned /\ (FirstHeaderEof \/ FirstBadMagic)) =>
    /\ d_retval = 2
    /\ ndecoded = 0
    /\ outdata = <<>>
    /\ FirstHeaderEof => diag = <<eof_header_msg>>
    /\ FirstBadMagic => diag = <<bad_magic_msg>>

\* empty input with both leniency options on
C16_Witness ==
  /\ Returned
  /\ input = <<>>
  /\ ignore_trailing /\ loose_trailing
  /\ d_retval = 2

\* ------------------------------------------------------------------ C17
\* one or more well-formed members, all decoded, and at most 6 bytes left
EndsAtHeader ==
  /\ NumValid(input) >= 1
  /\ RemLen <= Lh_size
  /\ RemIsBytes
  /\ NoMemFailure

\* C17: when the input ends at a header position behind one or more valid
\* members, decompress() returns 0 if no byte is left; 2 with "Truncated
\* header in multimember file." if the bytes left are a prefix of the
\* magic, whatever ignore_trailing and loose_trailing are; and else 0 if
\* ignore_trailing is set and 2 if it is not
C17_EndAtHeader ==
  (Returned /\ EndsAtHeader) =>
    /\ ndecoded = NumValid(input)
    /\ RemLen = 0 => d_retval = 0
    /\ (RemLen > 0 /\ Lh_verify_prefix(RemBytes, RemLen)) =>
         (d_retval = 2 /\ InDiag(trunc_header_msg))
    /\ (RemLen > 0 /\ ~Lh_verify_prefix(RemBytes, RemLen)) =>
         /\ d_retval = (IF ignore_trailing THEN 0 ELSE 2)
         /\ ~InDiag(trunc_header_msg)

\* two bytes of the magic behind a member, with both leniency options on
C17_Witness ==
  /\ Returned /\ EndsAtHeader
  /\ RemLen = 2 /\ Lh_verify_prefix(RemBytes, RemLen)
  /\ ignore_trailing /\ loose_trailing
  /\ d_retval = 2

\* ------------------------------------------------------------------ C18
\* the decimal number in the five characters before the extension
VolNum(name) ==
  LET p == Len(name) - Len(lz_ext) - volume_digits
      d(k) == Ord(name[p + k]) - Ord("0")
  IN  d(1) * 10000 + d(2) * 1000 + d(3) * 100 + d(4) * 10 + d(5)

\* the name without its five digits
NameRest(name) ==
  LET p == Len(name) - Len(lz_ext) - volume_digits
  IN  <<SubSeq(name, 1, p), SubSeq(name, p + volume_digits + 1, Len(name))>>

\* C18: the first name ends in "00001.lz"; every successful next_filename()
\* adds exactly one to the five-digit number and leaves the rest of the
\* name alone, so no name comes twice; at 99999 next_filename() fails and
\* compress() reports "Too many volume files." and returns 1 with no
\* other file opened
C18_VolumeNames ==
  /\ [](mpc = "v_full" /\ VolNum(output_filename) = 1 =>
          \E name \in VolumeBases : output_filename = VolumeName(name))
  /\ [][mpc = "v_full" =>
          LET nf == next_filename_str(output_filename)
          IN  /\ nf.ok <=> VolNum(output_filename) < max_volumes
              /\ nf.ok =>
                   /\ mpc' = "v_open"
                   /\ VolNum(output_filename') = VolNum(output_filename) + 1
                   /\ NameRest(output_filename') = NameRest(output_filename)
              /\ ~nf.ok =>
                   /\ mpc' = "v_ret" /\ c_retval' = 1
                   /\ diag' = <<too_many_msg>>
                   /\ outfd' = -1 /\ ~delete_output_on_interrupt']_vars
  /\ [](mpc = "v_ret" => outfd = -1 /\ c_retval = 1)
  /\ [](mpc = "v_full" =>
          LET nf == next_filename_str(output_filename)
              nn == next_filename([b |-> "a", v |-> VolNum(output_filename)])
          IN  nf.ok = nn.ok /\ (nf.ok => VolNum(nf.name) = nn.name.v))
  /\ [](mpc \in {"v_full", "v_open"} =>
          /\ VolNum(output_filename) \in 1..max_volumes
          /\ c_retval = 0 /\ diag = <<>>)

\* the tenth volume is open: next_filename() has carried into the next
\* digit and left the 9 that ends the name proper alone
C18_Witness ==
  /\ mpc = "v_full"
  /\ outfd = FileFd
  /\ output_filename = <<"a", "9", "0", "0", "0", "1", "0">> \o lz_ext
  /\ VolNum(output_filename) = 10

\* ------------------------------------------------------------------ C20
\* compress() is about to call encode_member, or the call is in progress
AtEncodeCall == mpc \in {"c_encode", "c_member"}

\* one turn of the loop from a volume that is not full: the cap is in
\* range and a member within the cap leaves the volume within its size
CapStep(ms, vs, pvs) ==
  LET cap == MemberCap(ms, vs, pvs)
  IN  /\ cap > min_dictionary_size
      /\ cap <= ms
      /\ \A s \in EncodedSizes(cap) : vs > 0 => pvs + s <= vs

\* C20: with member_size >= 100000, volume_size 0 or >= 100000 and members
\* within their cap, partial_volume_size <= volume_size before every encode
\* call (so volume_size - partial_volume_size does not wrap), and the cap
\* handed to the encoder is above min_dictionary_size and at most
\* member_size; on entry to the loop the same step is checked for other
\* member sizes, volume sizes and partial volume sizes
C20_MemberCap ==
  /\ AtEncodeCall =>
       /\ member_size >= min_size_arg
       /\ volume_size = 0 \/ volume_size >= min_size_arg
       /\ partial_volume_size >= 0
       /\ partial_volume_size <= volume_size
       /\ volume_size > 0 => ~VolumeFull(partial_volume_size, volume_size)
       /\ CapStep(member_size, volume_size, partial_volume_size)
  /\ (mpc = "c_encode" /\ nenc = 0) =>
       \A ms \in {min_size_arg, min_size_arg + 1, 3 * min_size_arg} :
         \A vs \in {0, min_size_arg, min_size_arg + min_dictionary_size,
                    2 * min_size_arg + 1} :
           \A pvs \in {0, MinMemberSize, min_size_arg - min_dictionary_size,
                       min_size_arg, vs - min_dictionary_size - 1} :
             (pvs >= 0 /\ (vs = 0 \/ ~VolumeFull(pvs, vs))) =>
               CapStep(ms, vs, pvs)

\* the third member is about to be encoded into a volume that already
\* holds two, under a cap set by what is left of the volume
C20_Witness ==
  /\ mpc = "c_member"
  /\ nenc = 2
  /\ volume_size > 0
  /\ partial_volume_size > member_size
  /\ MemberCap(member_size, volume_size, partial_volume_size) < member_size

\* ------------------------------------------------------------------ C21
\* signal_handler is installed and the process has not exited
HandlerMayRun == sig = "handler" /\ mpc # "exited"

\* outfd is an open descriptor of the file named output_filename, which
\* this process opened and has not closed
FlagSound ==
  /\ outfd = FileFd
  /\ fd_file = output_filename
  /\ output_filename \in DOMAIN fs
  /\ fs[output_filename].own
  /\ ~fs[output_filename].done

\* the step of cleanup_and_fail that finds the flag set
CleanupStep ==
  mpc = "cf_body" /\ mpc' = "exited" /\ delete_output_on_interrupt

\* close( outfd ) in cleanup_and_fail on a descriptor already released
ClosesClosed == CleanupStep /\ outfd >= 0 /\ fd_file = NoFile

\* remove( output_filename ) in cleanup_and_fail on a file that was closed
\* complete
RemovesFinished ==
  /\ CleanupStep
  /\ output_filename \in DOMAIN fs
  /\ fs[output_filename].done

\* C21 as stated: wherever signal_handler may run the flag is set only
\* while outfd is the open descriptor of the unfinished file
\* output_filename of this process, and so cleanup_and_fail never closes a
\* closed descriptor, never removes a finished file and leaves no
\* unfinished file of this process behind
C21_Original ==
  /\ []((HandlerMayRun /\ delete_output_on_interrupt) => FlagSound)
  /\ [][~ClosesClosed /\ ~RemovesFinished]_vars
  /\ [](Exited => OwnUnfinished = {})

\* the file named output_filename was closed complete
OutputFinished ==
  output_filename \in DOMAIN fs /\ fs[output_filename].done

\* the file named output_filename is of this process and not closed complete
OutputUnfinished ==
  /\ output_filename \in DOMAIN fs
  /\ fs[output_filename].own
  /\ ~fs[output_filename].done

\* C21, what the code does: the flag stands for an open, unfinished file of
\* this process everywhere but in close_and_set_permissions, where it stays
\* set after close() until the second assignment behind it, and on the way
\* into cleanup_and_fail after a failed close(), where the descriptor may
\* be gone already. cleanup_and_fail closes a closed descriptor only there,
\* removes a finished file only when a signal came in that window, and
\* leaves an unfinished file only when a signal came between open() and
\* the assignment of the flag
C21_FlagInvariant ==
  /\ []((HandlerMayRun /\ delete_output_on_interrupt) =>
          CASE mpc = "cs_fd" ->
                 outfd = FileFd /\ fd_file = NoFile /\ OutputFinished
            [] mpc = "cs_flag" ->
                 outfd = -1 /\ fd_file = NoFile /\ OutputFinished
            [] mpc = "cf_ign" ->
                 \/ FlagSound
                 \/ /\ outfd = FileFd /\ fd_file = NoFile
                    /\ OutputUnfinished /\ cf_retval = 1
            [] OTHER -> FlagSound)
  /\ [][ClosesClosed =>
          \/ OutputFinished /\ signalled
          \/ OutputUnfinished /\ cf_retval = 1]_vars
  /\ [][RemovesFinished => signalled /\ fd_file = NoFile]_vars
  /\ [](Exited =>
          \/ OwnUnfinished = {}
          \/ /\ signalled /\ OwnUnfinished = {output_filename}
             /\ outfd = FileFd /\ fd_file = output_filename)

\* C21 witness of the divergence: the signal came in
\* close_and_set_permissions after outfd = -1 and before the flag was
\* cleared; cleanup_and_fail is about to remove the file just closed
C21_Witness ==
  /\ mpc = "cf_body"
  /\ signalled
  /\ delete_output_on_interrupt
  /\ outfd = -1
  /\ OutputFinished

====
